---- MODULE Spec2Model ----
(***************************************************************************)
(* A model of github-researcher's rate-governed collection engine:         *)
(*   utils/rate_limiter.py        RateLimitState, RateLimiter              *)
(*   services/github_rest_client.py     GitHubRestClient                   *)
(*   services/github_graphql_client.py  GitHubGraphQLClient                *)
(*   services/activity_collector.py     ActivityCollector                  *)
(*   models/contribution.py             ContributionCalendar               *)
(*   sdk.py                             GitHubResearcher                   *)
(*   services/profile_collector.py      ProfileCollector                   *)
(*   utils/pagination.py                parse_link_header                  *)
(* Each subsystem has its own specification over the shared variables:     *)
(*   SpecLedger   concurrent acquire / update_from_headers on the limiter  *)
(*   SpecObserve  one caller; each header update checked against its input *)
(*   SpecSend     two concurrent sends through acquire, network and retry  *)
(*   SpecClassify one send at a time, answered by every response           *)
(*   SpecDrain    get_paginated over a collection served as linked pages   *)
(*   SpecCollect  collect_activity: events, search gathers, commit batches *)
(*   SpecCalendar the methods of a ContributionCalendar built from a reply *)
(*   SpecSdk      enter, close and data methods of GitHubResearcher objects *)
(*                over the process-wide RateLimiter of get_rate_limiter     *)
(*   SpecProfile  get_profile: collect_profile and collect_social gathered  *)
(*   SpecLink     parse_link_header / get_next_page_url on header texts     *)
(*   SpecServer   concurrent sends against a server that counts requests   *)
(***************************************************************************)
EXTENDS Integers, Sequences, FiniteSets, TLC

VARIABLES
    \* RateLimiter (utils/rate_limiter.py)
    pools,      \* rest / search / graphql : RateLimitState
    lock,       \* RateLimiter._lock : holder, or NoTask
    now,        \* time.time()
    \* callers of the limiter in SpecLedger
    lpc,        \* position of each caller inside _acquire
    lpool,      \* the pool the caller's acquire in progress is for
    lops,       \* limiter operations issued so far
    \* history of the limiter since the last header update of each pool
    base,       \* remaining right after the last update (or construction)
    granted,    \* acquires that returned since then
    refused,    \* acquires that raised RateLimitExceededError since then
    clean,      \* every acquire since then was decided before reset_time
    lastObs,    \* the header update that was the last step, if it was one
    \* sends of GitHubRestClient._request / GitHubGraphQLClient.execute
    hasToken,   \* config.github_token is set
    spc,        \* position of each send
    skind,      \* "rest" (is_search = False), "search" (is_search = True) or "graphql"
    sattempt,   \* tenacity's attempt_number
    sout,       \* what the send returned or raised
    snet,       \* network calls the send has issued
    sacq,       \* acquires of the send that returned
    sshort,     \* the current attempt's acquire found remaining < cost before reset_time
    sretry_ok,  \* every further attempt of the send followed a timeout or a connect failure
    lastResp,   \* the response whose handling was the last step, if it was one
    \* GitHubRestClient.get_paginated
    served,     \* the collection the server holds: the body of each of its pages
    drain,      \* the call's arguments, locals and position
    \* ActivityCollector.collect_activity
    collect,    \* the call's arguments, locals and position
    gstate,     \* collect_prs / collect_issues / collect_reviews : state of the coroutine
    fstate,     \* _fetch_repo_commits of user_repos[i] : state of the coroutine
    \* ContributionCalendar (models/contribution.py)
    calendar,   \* the calendar: total_contributions and weeks of days
    report,     \* the method called last on it and what it returned
    \* get_rate_limiter and GitHubResearcher (utils/rate_limiter.py, sdk.py)
    rate_limiter,   \* the module's global _rate_limiter: None, or a RateLimiter
    limiters,       \* the RateLimiter instances created so far, by identity
    sdk,            \* the GitHubResearcher objects
    sdk_ops,        \* calls made so far
    sdkcall,        \* the call that was the last step and its outcome
    session,        \* the object was entered and not closed since
    gets,           \* what get_rate_limiter returned since the last reset
    \* GitHubResearcher.get_profile / ProfileCollector.collect_full
    users,      \* the usernames the server knows
    getp,       \* the call's argument, position and outcome
    ptask,      \* collect_profile : state of the coroutine
    stask,      \* collect_social : state of the coroutine
    \* parse_link_header / get_next_page_url (utils/pagination.py)
    sent,       \* the links the server wrote into the header
    the_header, \* the Link header: None, or its text
    parsed,     \* the function called last on it and what it returned
    \* the API server, as the sends of SpecServer see it
    quota,      \* the requests the server still accepts in the window
    reply       \* the response the server has written for each send, if any

ledgerVars == <<pools, lock, now>>
callerVars == <<lpc, lpool, lops>>
histVars == <<base, granted, refused, clean, lastObs>>
sendVars == <<hasToken, spc, skind, sattempt, sout, snet, sacq, sshort, sretry_ok, lastResp>>
drainVars == <<served, drain>>
collectVars == <<collect, gstate, fstate>>
calendarVars == <<calendar, report>>
sdkVars == <<rate_limiter, limiters, sdk, sdk_ops, sdkcall, session, gets>>
profileVars == <<users, getp, ptask, stask>>
linkVars == <<sent, the_header, parsed>>
serverVars == <<quota, reply>>
modelVars == <<calendarVars, sdkVars, profileVars, linkVars>>
vars == <<ledgerVars, callerVars, histVars, sendVars, drainVars, collectVars, modelVars,
          serverVars>>

engineVars == <<ledgerVars, callerVars, histVars, sendVars, drainVars, collectVars,
                serverVars>>
notLedger == <<sendVars, drainVars, collectVars, modelVars, serverVars>>
notSend == <<callerVars, histVars, drainVars, collectVars, modelVars, serverVars>>
notDrain == <<ledgerVars, callerVars, histVars, sendVars, collectVars, modelVars,
             serverVars>>
notCollect == <<ledgerVars, callerVars, histVars, sendVars, drainVars, modelVars,
               serverVars>>
notCalendar == <<engineVars, sdkVars, profileVars, linkVars>>
notSdk == <<engineVars, calendarVars, profileVars, linkVars>>
notProfile == <<engineVars, calendarVars, sdkVars, linkVars>>
notLink == <<engineVars, calendarVars, sdkVars, profileVars>>

----------------------------------------------------------------------------
\* Bounds of the model.

NumTasks == 2
MaxOps == 3
MaxSeqOps == 2
MaxTime == 1
MaxQuota == 1

\* Program constants.
REST_LIMIT == 5000
SEARCH_LIMIT == 30
GRAPHQL_LIMIT == 5000
REST_WINDOW == 3600
SEARCH_WINDOW == 60
UNAUTH_LIMIT == 60

Tasks == 1..NumTasks
NoTask == 0
PoolNames == {"rest", "search", "graphql"}

\* An Optional value: None is the empty sequence, a value x is <<x>>.
Nil == <<>>
Some(x) == <<x>>

Max(a, b) == IF a >= b THEN a ELSE b
Min(a, b) == IF a <= b THEN a ELSE b

----------------------------------------------------------------------------
\* Response headers.  A header map is a function from the header names that
\* are present to their text; the text of a number is its decimal digits.

HeaderNames == {"x-ratelimit-limit", "x-ratelimit-remaining", "x-ratelimit-reset"}

\* The server's decimal rendering of a number below 100.
Digits(n) == IF n < 10 THEN <<n>> ELSE <<n \div 10, n % 10>>

\* int(text) / float(text) of a decimal digit string.
RECURSIVE ParseInt(_)
ParseInt(s) ==
    IF Len(s) = 0 THEN 0
    ELSE 10 * ParseInt(SubSeq(s, 1, Len(s) - 1)) + s[Len(s)]

ResetTimes == {1, MaxTime + 8}

HeaderTexts(name) ==
    CASE name = "x-ratelimit-limit" -> {Digits(UNAUTH_LIMIT)}
      [] name = "x-ratelimit-remaining" -> {Digits(n) : n \in 0..MaxQuota}
      [] name = "x-ratelimit-reset" -> {Digits(r) : r \in ResetTimes}

ServerHeaders ==
    UNION {{h \in [D -> UNION {HeaderTexts(n) : n \in D}] :
                \A n \in D : h[n] \in HeaderTexts(n)} : D \in SUBSET HeaderNames}

\* The number a header text stands for, by the server's rendering.
HeaderValueOf ==
    [text \in UNION {HeaderTexts(n) : n \in HeaderNames} |->
        CHOOSE n \in 0..99 : Digits(n) = text]

HeaderValue(text) == HeaderValueOf[text]

\* The quota state the server declares by `headers` to a client that held `state`.
Declared(state, headers) ==
    [limit |-> IF "x-ratelimit-limit" \in DOMAIN headers
                 THEN HeaderValue(headers["x-ratelimit-limit"]) ELSE state.limit,
     remaining |-> IF "x-ratelimit-remaining" \in DOMAIN headers
                     THEN HeaderValue(headers["x-ratelimit-remaining"])
                     ELSE state.remaining,
     reset_time |-> IF "x-ratelimit-reset" \in DOMAIN headers
                      THEN HeaderValue(headers["x-ratelimit-reset"])
                      ELSE state.reset_time]

----------------------------------------------------------------------------
\* RateLimitState

RateLimitState(limit, remaining, reset_time) ==
    [limit |-> limit, remaining |-> remaining, reset_time |-> reset_time]

seconds_until_reset(state, t) == Max(0, state.reset_time - t)

update_from_headers_remaining_skipped(state, headers) ==
    [limit |-> IF "x-ratelimit-limit" \in DOMAIN headers
                 THEN ParseInt(headers["x-ratelimit-limit"]) ELSE state.limit,
     remaining |-> state.remaining,
     reset_time |-> IF "x-ratelimit-reset" \in DOMAIN headers
                      THEN ParseInt(headers["x-ratelimit-reset"]) ELSE state.reset_time]

update_from_headers(state, headers) ==
    [limit |-> IF "x-ratelimit-limit" \in DOMAIN headers
                 THEN ParseInt(headers["x-ratelimit-limit"]) ELSE state.limit,
     remaining |-> IF "x-ratelimit-remaining" \in DOMAIN headers
                     THEN ParseInt(headers["x-ratelimit-remaining"]) ELSE state.remaining,
     reset_time |-> IF "x-ratelimit-reset" \in DOMAIN headers
                      THEN ParseInt(headers["x-ratelimit-reset"]) ELSE state.reset_time]

----------------------------------------------------------------------------
\* RateLimiter

\* The default_factory of the three fields, with the clock at 0.
RateLimiterInit ==
    [p \in PoolNames |->
        CASE p = "rest" -> RateLimitState(REST_LIMIT, REST_LIMIT, REST_WINDOW)
          [] p = "search" -> RateLimitState(SEARCH_LIMIT, SEARCH_LIMIT, SEARCH_WINDOW)
          [] p = "graphql" -> RateLimitState(GRAPHQL_LIMIT, GRAPHQL_LIMIT, REST_WINDOW)]

\* _acquire's decision under the lock: raise RateLimitExceededError?
acquire_raises_never(state, cost, t) == FALSE

acquire_raises(state, cost, t) ==
    state.remaining < cost /\ seconds_until_reset(state, t) > 0

\* a deduction that first refills the pool to its limit
deduct_replenishing(state, cost) == [state EXCEPT !.remaining = state.limit - cost]

\* "Deduct the cost"
deduct(state, cost) == [state EXCEPT !.remaining = @ - cost]

\* a body that deducts before it looks at remaining
acquire_deducting_first(state, cost, t) == deduct(state, cost)

\* The pool's state when the body of _acquire is left, by raise or by return.
acquire(state, cost, t) ==
    IF acquire_raises(state, cost, t) THEN state ELSE deduct(state, cost)

\* update_rest_from_headers / update_search_from_headers / update_graphql_from_headers
update_pool_from_headers(p, headers) ==
    pools' = [pools EXCEPT ![p] = update_from_headers(@, headers)]

----------------------------------------------------------------------------
\* SpecLedger: NumTasks concurrent callers of acquire_rest / acquire_search /
\* acquire_graphql, header updates arriving at any time, and the clock.

LedgerInit ==
    /\ pools = RateLimiterInit
    /\ lock = NoTask
    /\ now = 0

NoObs == [pool |-> "none"]

HistInit ==
    /\ base = [p \in PoolNames |-> RateLimiterInit[p].remaining]
    /\ granted = [p \in PoolNames |-> 0]
    /\ refused = [p \in PoolNames |-> 0]
    /\ clean = [p \in PoolNames |-> TRUE]
    /\ lastObs = NoObs

CallerInit ==
    /\ lpc = [t \in Tasks |-> "idle"]
    /\ lpool = [t \in Tasks |-> "rest"]
    /\ lops = 0

\* No send is in progress.
NoResp == [task |-> NoTask]

SendIdle ==
    /\ hasToken = TRUE
    /\ spc = [t \in Tasks |-> "idle"]
    /\ skind = [t \in Tasks |-> "rest"]
    /\ sattempt = [t \in Tasks |-> 0]
    /\ sout = [t \in Tasks |-> "none"]
    /\ snet = [t \in Tasks |-> 0]
    /\ sacq = [t \in Tasks |-> 0]
    /\ sshort = [t \in Tasks |-> FALSE]
    /\ sretry_ok = [t \in Tasks |-> TRUE]
    /\ lastResp = NoResp

\* No get_paginated and no collect_activity is in progress.
DrainIdle ==
    /\ served = <<>>
    /\ drain = [pc |-> "idle"]

SearchGathers == {"prs", "issues", "reviews"}

CollectIdle ==
    /\ collect = [pc |-> "idle"]
    /\ gstate = [g \in SearchGathers |-> "idle"]
    /\ fstate = <<>>

\* No calendar has been built.
CalendarIdle ==
    /\ calendar = [total_contributions |-> 0, weeks |-> <<>>]
    /\ report = [op |-> "none"]

NumSdks == 2
Sdks == 1..NumSdks

\* GitHubResearcher.__init__
GitHubResearcher(token) ==
    [token |-> token, rate_limiter |-> Nil, rest_client |-> Nil,
     graphql_client |-> Nil, initialized |-> FALSE]

NoCall == [op |-> "none"]

\* No GitHubResearcher has been used and no RateLimiter created.
SdkIdle ==
    /\ rate_limiter = Nil
    /\ limiters = <<>>
    /\ sdk = [s \in Sdks |-> GitHubResearcher(FALSE)]
    /\ sdk_ops = 0
    /\ sdkcall = NoCall
    /\ session = [s \in Sdks |-> FALSE]
    /\ gets = {}

\* No get_profile is in progress.
ProfileIdle ==
    /\ users = {}
    /\ getp = [pc |-> "idle"]
    /\ ptask = [state |-> "idle"]
    /\ stask = [state |-> "idle"]

\* No Link header is at hand.
LinkIdle ==
    /\ sent = <<>>
    /\ the_header = Nil
    /\ parsed = [op |-> "none"]

\* No send has reached the server.
ServerIdle ==
    /\ quota = 0
    /\ reply = [t \in Tasks |-> Nil]

ModelsIdle == CalendarIdle /\ SdkIdle /\ ProfileIdle /\ LinkIdle

InitLedger ==
    /\ LedgerInit /\ HistInit /\ CallerInit /\ SendIdle /\ DrainIdle /\ CollectIdle
    /\ ModelsIdle /\ ServerIdle

\* acquire_rest(), acquire_search() or acquire_graphql() with cost = 1 is called.
CallAcquire(t, p, budget) ==
    /\ lpc[t] = "idle"
    /\ lops < budget
    /\ lops' = lops + 1
    /\ lpc' = [lpc EXCEPT ![t] = "wait_lock"]
    /\ lpool' = [lpool EXCEPT ![t] = p]
    /\ lastObs' = NoObs
    /\ UNCHANGED <<ledgerVars, base, granted, refused, clean, notLedger>>

\* async with self._lock: entered once the lock is free.
LockEnter(t) ==
    /\ lpc[t] = "wait_lock"
    /\ lock = NoTask
    /\ lock' = t
    /\ lpc' = [lpc EXCEPT ![t] = "locked"]
    /\ lastObs' = NoObs
    /\ UNCHANGED <<pools, now, lpool, lops, base, granted, refused, clean, notLedger>>

\* The body of _acquire: no await inside, so the check and the deduction are
\* one step; leaving the with block (by return or by raise) releases the lock.
AcquireBody(t) ==
    /\ lpc[t] = "locked"
    /\ lock = t
    /\ LET p == lpool[t]
           raises == acquire_raises(pools[p], 1, now)
       IN /\ pools' = [pools EXCEPT ![p] = acquire(@, 1, now)]
          /\ granted' = [granted EXCEPT ![p] = IF raises THEN @ ELSE @ + 1]
          /\ refused' = [refused EXCEPT ![p] = IF raises THEN @ + 1 ELSE @]
          /\ clean' = [clean EXCEPT ![p] = @ /\ seconds_until_reset(pools[p], now) > 0]
    /\ lock' = NoTask
    /\ lpc' = [lpc EXCEPT ![t] = "idle"]
    /\ lpool' = [lpool EXCEPT ![t] = "rest"]
    /\ lastObs' = NoObs
    /\ UNCHANGED <<now, lops, base, notLedger>>

\* update_*_from_headers(headers): synchronous, takes no lock.
Observe(p, headers, track, budget) ==
    /\ lops < budget
    /\ lops' = lops + 1
    /\ update_pool_from_headers(p, headers)
    /\ base' = [base EXCEPT ![p] = pools'[p].remaining]
    /\ granted' = [granted EXCEPT ![p] = 0]
    /\ refused' = [refused EXCEPT ![p] = 0]
    /\ clean' = [clean EXCEPT ![p] = TRUE]
    /\ lastObs' = IF track
                   THEN [pool |-> p, headers |-> headers, before |-> pools[p],
                         deducted |-> granted[p]]
                   ELSE NoObs
    /\ UNCHANGED <<lock, now, lpc, lpool, notLedger>>

Tick ==
    /\ now < MaxTime
    /\ now' = now + 1
    /\ lastObs' = NoObs
    /\ UNCHANGED <<pools, lock, callerVars, base, granted, refused, clean, notLedger>>

NextLedger ==
    \/ \E t \in Tasks, p \in PoolNames : CallAcquire(t, p, MaxOps)
    \/ \E t \in Tasks : LockEnter(t)
    \/ \E t \in Tasks : AcquireBody(t)
    \/ \E p \in PoolNames, h \in ServerHeaders : Observe(p, h, FALSE, MaxOps)
    \/ Tick

SpecLedger == InitLedger /\ [][NextLedger]_vars

\* SpecObserve: one caller alternating acquires and header updates, each
\* update remembered for one step together with the state it replaced.
NextObserve ==
    \/ \E p \in PoolNames : CallAcquire(1, p, MaxSeqOps)
    \/ LockEnter(1)
    \/ AcquireBody(1)
    \/ \E p \in PoolNames, h \in ServerHeaders : Observe(p, h, TRUE, MaxSeqOps)
    \/ Tick

SpecObserve == InitLedger /\ [][NextObserve]_vars

----------------------------------------------------------------------------
\* HTTP responses.  A body is empty, text that is not JSON, a JSON array, or
\* a JSON object (its fields); a string is the sequence of its characters.

UpperCase == <<"A", "B", "C", "D", "E", "F", "G", "H", "I", "J", "K", "L", "M",
               "N", "O", "P", "Q", "R", "S", "T", "U", "V", "W", "X", "Y", "Z">>
LowerCase == <<"a", "b", "c", "d", "e", "f", "g", "h", "i", "j", "k", "l", "m",
               "n", "o", "p", "q", "r", "s", "t", "u", "v", "w", "x", "y", "z">>

\* str.lower()
lower_char(c) ==
    IF \E i \in 1..Len(UpperCase) : UpperCase[i] = c
    THEN LowerCase[CHOOSE i \in 1..Len(UpperCase) : UpperCase[i] = c]
    ELSE c

lower(str) == [i \in 1..Len(str) |-> lower_char(str[i])]

\* sub in str
contains(sub, str) ==
    \E i \in 1..(Len(str) - Len(sub) + 1) : SubSeq(str, i, i + Len(sub) - 1) = sub

RATE_LIMIT == <<"r", "a", "t", "e", " ", "l", "i", "m", "i", "t">>

MsgRateLower == <<"r", "a", "t", "e", " ", "l", "i", "m", "i", "t", "e", "d">>
MsgRateMixed == <<"A", "P", "I", " ", "R", "a", "t", "e", " ", "L", "i", "m", "i", "t">>
MsgRateJoined == <<"r", "a", "t", "e", "l", "i", "m", "i", "t">>
MsgDenied == <<"D", "e", "n", "i", "e", "d">>
Messages == {MsgRateLower, MsgRateMixed, MsgRateJoined, MsgDenied}

EmptyBody == [kind |-> "empty"]
TextBody == [kind |-> "text"]
ArrayBody == [kind |-> "array"]
ObjectBody(fields) == [kind |-> "object", fields |-> fields]
EmptyObject == ObjectBody(<<>>)

Message(m) == [k \in {"message"} |-> m]
GraphqlFields ==
    {[k \in {"data"} |-> <<"user">>],
     [k \in {"errors"} |-> <<"NOT_FOUND">>],
     [k \in {"data", "errors"} |-> IF k = "data" THEN <<"user">> ELSE <<"NOT_FOUND">>]}

Bodies ==
    {EmptyBody, TextBody, ArrayBody, EmptyObject}
        \cup {ObjectBody(Message(m)) : m \in Messages}
        \cup {ObjectBody(f) : f \in GraphqlFields}

Statuses == {200, 304, 403, 404, 422, 500, 503}

\* The servers send the three quota headers together or not at all.
QuotaHeaders == {h \in ServerHeaders : DOMAIN h \in {{}, HeaderNames}}

Response(status, body, headers) ==
    [status |-> status, body |-> body, headers |-> headers]

Responses ==
    {Response(st, b, h) : st \in Statuses, b \in Bodies, h \in QuotaHeaders}

\* The responses of the concurrent sends: every class of status, with and
\* without a rate-limit message.
CoarseResponses ==
    {Response(st, b, h) : st \in {200, 403, 404, 500},
                          b \in {EmptyBody, ObjectBody(Message(MsgRateMixed))},
                          h \in QuotaHeaders}

----------------------------------------------------------------------------
\* What a send returns or raises.

Returned(value) == [type |-> "return", value |-> value]
Raised(type) == [type |-> type]
ApiError(type, message, status_code, response_body) ==
    [type |-> type, message |-> message, status_code |-> status_code,
     response_body |-> response_body]
None == [kind |-> "None"]

\* dict.get(key, default) of a JSON object
get(body, key, default) ==
    IF key \in DOMAIN body.fields THEN body.fields[key] ELSE default

\* "response.json() if response.content else {}"
json_or_empty(body) == IF body.kind = "empty" THEN EmptyObject ELSE body

\* GitHubRestClient._request, "Handle errors"
rest_classify(response) ==
    LET status == response.status
        body == response.body
    IN IF status = 404 THEN
            IF body.kind = "text" THEN Raised("JSONDecodeError")
            ELSE ApiError("GitHubNotFoundError", "Resource not found", 404,
                          IF body.kind = "empty" THEN None ELSE body)
       ELSE IF status = 403 THEN
            IF body.kind = "text" THEN Raised("JSONDecodeError")
            ELSE IF body.kind = "array" THEN Raised("AttributeError")
            ELSE IF contains(RATE_LIMIT, lower(get(json_or_empty(body), "message", <<>>)))
                 THEN ApiError("GitHubRateLimitError", "Rate limit exceeded", 403,
                               json_or_empty(body))
                 ELSE ApiError("GitHubAPIError", "Forbidden", 403, json_or_empty(body))
       ELSE IF status >= 500 THEN
            ApiError("GitHubAPIError", "Server error", status, None)
       ELSE IF status >= 400 THEN
            IF body.kind = "text" THEN Raised("JSONDecodeError")
            ELSE IF body.kind = "array" THEN Raised("AttributeError")
            ELSE ApiError("GitHubAPIError", "API error", status, json_or_empty(body))
       ELSE Returned(response)

\* a reading of the body that prefers the data object to the errors list
graphql_classify_data_first(response) ==
    LET status == response.status
        result == response.body
    IN IF status # 200 THEN Raised("GitHubGraphQLError")
       ELSE IF result.kind \in {"empty", "text"} THEN Raised("JSONDecodeError")
       ELSE IF result.kind = "array" THEN Raised("AttributeError")
       ELSE IF "data" \in DOMAIN result.fields
            THEN Returned(result.fields["data"])
            ELSE [type |-> "GitHubGraphQLError", errors |-> get(result, "errors", <<>>)]

\* GitHubGraphQLClient.execute, after the rate limit update
graphql_classify(response) ==
    LET status == response.status
        result == response.body
    IN IF status # 200 THEN Raised("GitHubGraphQLError")
       ELSE IF result.kind \in {"empty", "text"} THEN Raised("JSONDecodeError")
       ELSE IF result.kind = "array" THEN Raised("AttributeError")
       ELSE IF "errors" \in DOMAIN result.fields
            THEN [type |-> "GitHubGraphQLError", errors |-> result.fields["errors"]]
            ELSE Returned(get(result, "data", <<>>))

classify(kind, response) ==
    IF kind = "graphql" THEN graphql_classify(response) ELSE rest_classify(response)

\* _update_rate_limit(response.headers, is_search) and
\* rate_limiter.update_graphql_from_headers(dict(response.headers)), applied
\* to the pool of the request as soon as the response is there.
update_rate_limit_on_success(state, response) ==
    IF response.status < 400 THEN update_from_headers(state, response.headers)
    ELSE state

update_rate_limit(state, response) == update_from_headers(state, response.headers)

\* tenacity: retry_if_exception_type((httpx.TimeoutException, httpx.ConnectError))
RetryableErrors == {"TimeoutException", "ConnectError"}
\* the failures of the network call: the two above, and any other httpx.TransportError
NetworkErrors == RetryableErrors \cup {"ReadError"}

should_retry_any(exc) == TRUE

should_retry(exc) == exc \in RetryableErrors

\* stop_after_attempt(3)
MAX_ATTEMPTS == 3

----------------------------------------------------------------------------
\* SpecSend: two concurrent sends, a send and a peer, against the shared limiter.

SendTasks == {t \in Tasks : t <= 2}

SendInit(tokens) ==
    /\ LedgerInit /\ HistInit /\ CallerInit
    /\ hasToken \in tokens
    /\ spc = [t \in Tasks |-> "idle"]
    /\ skind = [t \in Tasks |-> "rest"]
    /\ sattempt = [t \in Tasks |-> 0]
    /\ sout = [t \in Tasks |-> "none"]
    /\ snet = [t \in Tasks |-> 0]
    /\ sacq = [t \in Tasks |-> 0]
    /\ sshort = [t \in Tasks |-> FALSE]
    /\ sretry_ok = [t \in Tasks |-> TRUE]
    /\ lastResp = NoResp
    /\ DrainIdle /\ CollectIdle /\ ModelsIdle /\ ServerIdle

\* The pool a send takes its permit from: acquire_search() if is_search else
\* acquire_rest() in _request; acquire_graphql() in execute.
acquire_pool(kind) == kind

\* an update that writes every response into the primary pool
update_pool_always_rest(kind) == "rest"

\* The pool a response's headers are written to: _update_rate_limit(headers,
\* is_search) in _request; update_graphql_from_headers in execute.
update_pool(kind) == kind

\* _request(..., is_search) or execute(...) is called: tenacity starts attempt 1,
\* which begins with acquire_rest / acquire_search / acquire_graphql.
StartSend(t, kind) ==
    /\ spc[t] = "idle"
    /\ spc' = [spc EXCEPT ![t] = "wait_lock"]
    /\ skind' = [skind EXCEPT ![t] = kind]
    /\ sattempt' = [sattempt EXCEPT ![t] = 1]
    /\ lastResp' = NoResp
    /\ UNCHANGED <<ledgerVars, hasToken, sout, snet, sacq, sshort, sretry_ok, notSend>>

\* async with self._lock
SendLockEnter(t) ==
    /\ spc[t] = "wait_lock"
    /\ lock = NoTask
    /\ lock' = t
    /\ spc' = [spc EXCEPT ![t] = "locked"]
    /\ lastResp' = NoResp
    /\ UNCHANGED <<pools, now, hasToken, skind, sattempt, sout, snet, sacq, sshort,
                   sretry_ok, notSend>>

\* The body of _acquire and, when it returns, everything up to the await of
\* the network call: _get_client() (for the query client _get_headers(), which
\* raises without a token) and client.request / client.post.
SendAcquire(t) ==
    /\ spc[t] = "locked"
    /\ lock = t
    /\ lock' = NoTask
    /\ lastResp' = NoResp
    /\ LET p == acquire_pool(skind[t])
           raises == acquire_raises(pools[p], 1, now)
           no_token == skind[t] = "graphql" /\ ~hasToken
       IN /\ sshort' = [sshort EXCEPT ![t] =
                            pools[p].remaining < 1 /\ now < pools[p].reset_time]
          /\ pools' = [pools EXCEPT ![p] = acquire(@, 1, now)]
          /\ sacq' = [sacq EXCEPT ![t] = IF raises THEN @ ELSE @ + 1]
          /\ IF raises
             THEN /\ spc' = [spc EXCEPT ![t] = "done"]
                  /\ sout' = [sout EXCEPT ![t] = "RateLimitExceededError"]
                  /\ snet' = snet
             ELSE IF no_token
             THEN /\ spc' = [spc EXCEPT ![t] = "done"]
                  /\ sout' = [sout EXCEPT ![t] = "GitHubGraphQLError"]
                  /\ snet' = snet
             ELSE /\ spc' = [spc EXCEPT ![t] = "request"]
                  /\ sout' = sout
                  /\ snet' = [snet EXCEPT ![t] = @ + 1]
    /\ UNCHANGED <<now, hasToken, skind, sattempt, sretry_ok, notSend>>

\* The network call returns a response: the pool is updated from its headers,
\* then the response is classified; no await in between.  Nothing the
\* classification raises is retried.
Respond(t, response, track) ==
    /\ spc[t] = "request"
    /\ LET p == update_pool(skind[t])
           result == classify(skind[t], response)
       IN /\ pools' = [pools EXCEPT ![p] = update_rate_limit(@, response)]
          /\ sout' = [sout EXCEPT ![t] = result.type]
          /\ lastResp' =
                IF track
                THEN [task |-> t, response |-> response, result |-> result]
                ELSE [task |-> t, declared |-> Declared(pools[p], response.headers)]
    /\ spc' = [spc EXCEPT ![t] = "done"]
    /\ UNCHANGED <<lock, now, hasToken, skind, sattempt, snet, sacq, sshort, sretry_ok,
                   notSend>>

\* The network call fails: tenacity retries after a sleep, gives up with
\* RetryError after MAX_ATTEMPTS attempts, or lets the exception through.
NetFail(t, exc) ==
    /\ spc[t] = "request"
    /\ lastResp' = NoResp
    /\ IF ~should_retry(exc)
       THEN /\ spc' = [spc EXCEPT ![t] = "done"]
            /\ sout' = [sout EXCEPT ![t] = exc]
            /\ sretry_ok' = sretry_ok
       ELSE IF sattempt[t] >= MAX_ATTEMPTS
       THEN /\ spc' = [spc EXCEPT ![t] = "done"]
            /\ sout' = [sout EXCEPT ![t] = "RetryError"]
            /\ sretry_ok' = sretry_ok
       ELSE /\ spc' = [spc EXCEPT ![t] = "backoff"]
            /\ sout' = sout
            /\ sretry_ok' = [sretry_ok EXCEPT ![t] =
                                @ /\ exc \in {"TimeoutException", "ConnectError"}]
    /\ UNCHANGED <<ledgerVars, hasToken, skind, sattempt, snet, sacq, sshort, notSend>>

\* wait_exponential is over: the next attempt starts, again with acquire.
Retry(t) ==
    /\ spc[t] = "backoff"
    /\ spc' = [spc EXCEPT ![t] = "wait_lock"]
    /\ sattempt' = [sattempt EXCEPT ![t] = @ + 1]
    /\ lastResp' = NoResp
    /\ UNCHANGED <<ledgerVars, hasToken, skind, sout, snet, sacq, sshort, sretry_ok, notSend>>

SendTick ==
    /\ now < MaxTime
    /\ now' = now + 1
    /\ lastResp' = NoResp
    /\ UNCHANGED <<pools, lock, hasToken, spc, skind, sattempt, sout, snet, sacq,
                   sshort, sretry_ok, notSend>>

NextSend ==
    \/ \E t \in SendTasks, kind \in PoolNames : StartSend(t, kind)
    \/ \E t \in SendTasks : SendLockEnter(t)
    \/ \E t \in SendTasks : SendAcquire(t)
    \/ \E t \in SendTasks, r \in CoarseResponses : Respond(t, r, FALSE)
    \/ \E t \in SendTasks, e \in NetworkErrors : NetFail(t, e)
    \/ \E t \in SendTasks : Retry(t)
    \/ SendTick

\* The concurrent sends are authenticated.
InitSend == SendInit({TRUE})

SpecSend == InitSend /\ [][NextSend]_vars

\* SpecClassify: one send at a time, answered by every response.
NextClassify ==
    \/ \E kind \in PoolNames : StartSend(1, kind)
    \/ SendLockEnter(1)
    \/ SendAcquire(1)
    \/ \E r \in Responses : Respond(1, r, TRUE)
    \/ \E e \in NetworkErrors : NetFail(1, e)
    \/ Retry(1)
    \/ SendTick

InitClassify == SendInit(BOOLEAN)

SpecClassify == InitClassify /\ [][NextClassify]_vars

----------------------------------------------------------------------------
\* Pagination (utils/pagination.py, GitHubRestClient.get_paginated).
\* A URL of the collection is the number of the page it addresses; a Link
\* header is the sequence of its <url>; rel="name" parts.

MaxPages == 3
MaxItems == 2

\* A Link header is text, a sequence of characters, or None.  The URL of
\* page k of a collection is the character of the digit k.
Url(k) == <<ToString(k)>>

\* The server's reading of a URL it handed out: the page it addresses.
PageOf(url) == CHOOSE k \in 1..9 : Url(k) = url

RelNext == <<"n", "e", "x", "t">>
RelPrev == <<"p", "r", "e", "v">>
RelLast == <<"l", "a", "s", "t">>
RelFirst == <<"f", "i", "r", "s", "t">>

Link(url, rel) == [url |-> url, rel |-> rel]

\* The links the server sends with page k of n: prev, next, last, first,
\* each where it applies.
Links(k, n) ==
    (IF k > 1 THEN <<Link(Url(k - 1), RelPrev)>> ELSE <<>>)
        \o (IF k < n THEN <<Link(Url(k + 1), RelNext), Link(Url(n), RelLast)>> ELSE <<>>)
        \o (IF k > 1 THEN <<Link(Url(1), RelFirst)>> ELSE <<>>)

\* <url>; rel="name", with `gap` between the semicolon and rel
LinkText(link, gap) ==
    <<"<">> \o link.url \o <<">", ";">> \o gap \o <<"r", "e", "l", "=", "\"">>
        \o link.rel \o <<"\"">>

\* The links as one header value, `sep` between two of them.
RECURSIVE HeaderText(_, _, _)
HeaderText(links, gap, sep) ==
    IF Len(links) = 0 THEN <<>>
    ELSE IF Len(links) = 1 THEN LinkText(links[1], gap)
    ELSE LinkText(links[1], gap) \o sep \o HeaderText(Tail(links), gap, sep)

\* The Link header of page k of n as GitHub writes it; no header (None)
\* when there is no link to send.
LinkHeader(k, n) ==
    IF Links(k, n) = <<>> THEN Nil
    ELSE Some(HeaderText(Links(k, n), <<" ">>, <<",", " ">>))

\* The first index from i on where text has character c, or 0.
RECURSIVE index_of(_, _, _)
index_of(text, c, i) ==
    IF i > Len(text) THEN 0
    ELSE IF text[i] = c THEN i
    ELSE index_of(text, c, i + 1)

\* \s* : the first index from i on that holds no whitespace
RECURSIVE skip_space(_, _)
skip_space(text, i) ==
    IF i <= Len(text) /\ text[i] \in {" ", "\t"} THEN skip_space(text, i + 1) ELSE i

\* text[i..] starts with the characters of lit
starts_with(text, i, lit) ==
    /\ i + Len(lit) - 1 <= Len(text)
    /\ SubSeq(text, i, i + Len(lit) - 1) = lit

NoMatch == [found |-> FALSE]

\* The value of body(x), with x evaluated once.
With(x, body(_)) == CHOOSE v \in {body(y) : y \in {x}} : TRUE

\* re.match of r'<([^>]+)>;\s*rel="([^"]+)"' at index i: the two groups and
\* the index after the match.
match_rel(text, i, close, r) ==
    IF ~starts_with(text, r, <<"r", "e", "l", "=", "\"">>) THEN NoMatch
    ELSE With(index_of(text, "\"", r + 5), LAMBDA quote :
            IF quote = 0 \/ quote = r + 5 THEN NoMatch
            ELSE [found |-> TRUE,
                  url |-> SubSeq(text, i + 1, close - 1),
                  rel |-> SubSeq(text, r + 5, quote - 1),
                  end |-> quote + 1])

match_at(text, i) ==
    IF i > Len(text) THEN NoMatch
    ELSE IF text[i] # "<" THEN NoMatch
    ELSE With(index_of(text, ">", i + 1), LAMBDA close :
            IF close = 0 \/ close = i + 1 THEN NoMatch
            ELSE IF ~starts_with(text, close + 1, <<";">>) THEN NoMatch
            ELSE With(skip_space(text, close + 2), LAMBDA r : match_rel(text, i, close, r)))

\* "links[rel] = url"
set_item(links, rel, url) ==
    [k \in DOMAIN links \cup {rel} |-> IF k = rel THEN url ELSE links[k]]

\* "for match in re.finditer(pattern, link_header): links[rel] = url":
\* the links of the matches from index i on, a later one overwriting an
\* earlier one
find_links(text) ==
    LET n == Len(text)
        from[i \in 1..(n + 1)] ==
            IF i > n THEN <<>>
            ELSE With(match_at(text, i), LAMBDA m :
                    IF ~m.found THEN from[i + 1]
                    ELSE With(from[m.end], LAMBDA rest :
                            IF m.rel \in DOMAIN rest THEN rest
                            ELSE set_item(rest, m.rel, m.url)))
    IN from[1]

\* parse_link_header: rel -> url; "if not link_header: return {}"
parse_link_header(link_header) ==
    IF link_header = Nil THEN <<>>
    ELSE With(link_header[1], LAMBDA text :
            IF text = <<>> THEN <<>> ELSE find_links(text))

\* a reading that takes the URL of whatever link comes first
get_next_page_url_of_first_link(link_header) ==
    LET m == IF link_header = Nil THEN NoMatch ELSE match_at(link_header[1], 1)
    IN IF m.found THEN Some(m.url) ELSE Nil

\* get_next_page_url: links.get("next")
get_next_page_url(link_header) ==
    LET links == parse_link_header(link_header)
    IN IF RelNext \in DOMAIN links THEN Some(links[RelNext]) ELSE Nil

\* The j-th item of page k.
Item(k, j) == <<k, j>>

\* The JSON of a page: a list of items, a search result {"items": [...]},
\* or some other object.
PageKinds == {"list", "items", "object"}
Page(kind, k, size) == [kind |-> kind, items |-> [j \in 1..size |-> Item(k, j)]]

\* The collections a server holds: 1..MaxPages pages of one kind.
Collections ==
    UNION {{[k \in 1..n |-> Page(kind, k, sizes[k])] :
                sizes \in [1..n -> 0..MaxItems], kind \in PageKinds} : n \in 1..MaxPages}

\* The page caps callers pass: None, or (max_results + 99) // 100.
PageCaps == {Nil} \cup {Some(m) : m \in 0..MaxPages}

\* "while url and (max_pages is None or page <= max_pages)"
keep_going_uncapped(url, max_pages, page) == url # Nil

keep_going(url, max_pages, page) ==
    url # Nil /\ (IF max_pages = Nil THEN TRUE ELSE page <= max_pages[1])

\* get_paginated(endpoint, max_pages, per_page, is_search) is called.
CallPaginated(max_pages, is_search) ==
    /\ drain.pc = "idle"
    /\ drain' = [pc |-> "loop", max_pages |-> max_pages, is_search |-> is_search,
                 all_items |-> <<>>, page |-> 1, url |-> Some(Url(1)), requests |-> 0,
                 yielded |-> Nil, transport_error |-> "none", error |-> "none"]
    /\ UNCHANGED <<served, notDrain>>

\* The loop test holds: _request("GET", url) is awaited.
DrainRequest ==
    /\ drain.pc = "loop"
    /\ keep_going(drain.url, drain.max_pages, drain.page)
    /\ drain' = [drain EXCEPT !.pc = "request", !.requests = @ + 1]
    /\ UNCHANGED <<served, notDrain>>

\* The loop test fails: return all_items.
DrainReturn ==
    /\ drain.pc = "loop"
    /\ ~keep_going(drain.url, drain.max_pages, drain.page)
    /\ drain' = [drain EXCEPT !.pc = "returned", !.yielded = Some(drain.all_items)]
    /\ UNCHANGED <<served, notDrain>>

\* _request returns the page at url: its items are appended, the next URL is
\* read from its Link header, page is incremented; a page that is no list
\* (and no search result of a search) is appended whole and ends the loop.
DrainResponse ==
    /\ drain.pc = "request"
    /\ LET data == served[PageOf(drain.url[1])]
           link_header == LinkHeader(PageOf(drain.url[1]), Len(served))
       IN IF (drain.is_search /\ data.kind = "items") \/ data.kind = "list"
          THEN drain' = [drain EXCEPT !.pc = "loop",
                                      !.all_items = @ \o data.items,
                                      !.url = get_next_page_url(link_header),
                                      !.page = @ + 1]
          ELSE drain' = [drain EXCEPT !.pc = "returned",
                                      !.all_items = Append(@, data),
                                      !.yielded = Some(Append(drain.all_items, data))]
    /\ UNCHANGED <<served, notDrain>>

\* What _request raises: a refused acquire, an error status, the end of the
\* attempts.
TransportErrors == {"RateLimitExceededError", "GitHubAPIError", "RetryError"}

\* "response = await self._request(...)" stands in no try block: what the
\* call raises leaves get_paginated, all_items with it.
request_failed_partial(exc, all_items) == Returned(all_items)

request_failed(exc, all_items) == Raised(exc)

\* _request raises exc.
DrainRaise(exc) ==
    /\ drain.pc = "request"
    /\ LET outcome == request_failed(exc, drain.all_items)
       IN IF outcome.type = "return"
          THEN drain' = [drain EXCEPT !.pc = "returned", !.transport_error = exc,
                                      !.yielded = Some(outcome.value)]
          ELSE drain' = [drain EXCEPT !.pc = "raised", !.transport_error = exc,
                                      !.error = outcome.type]
    /\ UNCHANGED <<served, notDrain>>

NextDrain ==
    \/ \E m \in PageCaps, s \in BOOLEAN : CallPaginated(m, s)
    \/ DrainRequest
    \/ DrainReturn
    \/ DrainResponse
    \/ \E exc \in TransportErrors : DrainRaise(exc)

InitDrain ==
    /\ LedgerInit /\ HistInit /\ CallerInit /\ SendIdle /\ CollectIdle /\ ModelsIdle /\ ServerIdle
    /\ served \in Collections
    /\ drain = [pc |-> "idle"]

SpecDrain == InitDrain /\ [][NextDrain]_vars

\* SpecDrainLive: the event loop runs the drain whenever it can run, and
\* every request it awaits ends, by a response or by an exception.
SpecDrainLive ==
    /\ SpecDrain
    /\ WF_vars(DrainRequest)
    /\ WF_vars(DrainReturn)
    /\ WF_vars(DrainResponse \/ \E exc \in TransportErrors : DrainRaise(exc))

----------------------------------------------------------------------------
\* ActivityCollector (services/activity_collector.py).  A repository name
\* and a message are strings, sequences of characters; a commit SHA is a
\* number.

MaxRepos == 6
MaxSha == 2

\* batch_size = 5
BATCH_SIZE == 5

Shas == 1..MaxSha

\* "owner/name" of the i-th repository of the user
RepoName(i) == <<"o", "/", LowerCase[i]>>
\* names that are not owner/name
NoSlashName == <<"o">>
TwoSlashName == <<"o", "/", "r", "/", "x">>

\* The user_repos lists: the first n repositories, all well named or with a
\* malformed name in the first or the last place.
RepoList(n, bad) ==
    [i \in 1..n |-> IF i # bad THEN RepoName(i)
                    ELSE IF i = 1 THEN NoSlashName ELSE TwoSlashName]
RepoLists == {RepoList(n, bad) : n \in 0..MaxRepos, bad \in {0, 1, MaxRepos}}

\* What the server holds: the commits API's history of each repository, and
\* the events of the user's public feed.
ApiCommit(sha) == [sha |-> sha, message |-> <<"B">>]
PushCommit(sha) == [sha |-> sha, message |-> <<"A">>]
ServerHistory(i) == <<ApiCommit((i % MaxSha) + 1)>>
HistoryOf(name) ==
    LET i == CHOOSE j \in 1..MaxRepos : RepoName(j) = name IN ServerHistory(i)

Events ==
    {[type |-> "WatchEvent", repo |-> RepoName(1), payload |-> EmptyObject]}
        \cup {[type |-> "PushEvent", repo |-> RepoName(1),
               payload |-> ObjectBody([k \in {"commits"} |-> <<PushCommit(sha)>>])] :
                    sha \in Shas}
EventFeeds ==
    {<<>>} \cup {<<e>> : e \in Events} \cup {<<e1, e2>> : e1, e2 \in Events}

\* The items a search gather finds.
SearchHits(g) == <<[kind |-> g, number |-> 1]>>

\* str.split("/")
RECURSIVE split(_)
split(str) ==
    IF \A i \in 1..Len(str) : str[i] # "/" THEN <<str>>
    ELSE LET i == CHOOSE j \in 1..Len(str) :
                    str[j] = "/" /\ \A k \in 1..(j - 1) : str[k] # "/"
         IN <<SubSeq(str, 1, i - 1)>> \o split(SubSeq(str, i + 1, Len(str)))

\* list[start : stop]
slice_to_end(list, start, stop) == SubSeq(list, start + 1, Len(list))

slice(list, start, stop) == SubSeq(list, start + 1, Min(stop, Len(list)))

\* zip(a, b)
zip(a, b) == [j \in 1..Min(Len(a), Len(b)) |-> <<a[j], b[j]>>]

\* Commit.from_api(data, repo) and Commit.from_push_event(event, commit_data)
from_api(data, repo) == [sha |-> data.sha, message |-> data.message, repo |-> repo]
from_push_event(event, commit_data) ==
    [sha |-> commit_data.sha, message |-> commit_data.message, repo |-> event.repo]

\* [f(x) for x in list]
Map(f(_), list) == [j \in 1..Len(list) |-> f(list[j])]

extract_commits_dropped(events) == <<>>

\* extract_commits_from_events
RECURSIVE extract_commits_from_events(_)
extract_commits_from_events(events) ==
    IF events = <<>> THEN <<>>
    ELSE LET event == Head(events)
             payload_commits == get(event.payload, "commits", <<>>)
             from_event(commit_data) == from_push_event(event, commit_data)
         IN (IF event.type = "PushEvent" THEN Map(from_event, payload_commits) ELSE <<>>)
                \o extract_commits_from_events(Tail(events))

\* collect_prs / collect_issues / collect_reviews: the search and the
\* conversion run inside try / except Exception, which returns [].
collect_search_as_prs(g, failed) ==
    IF failed THEN Returned(<<>>) ELSE Returned(SearchHits("prs"))

collect_search_unguarded(g, failed) ==
    IF failed THEN Raised("Exception") ELSE Returned(SearchHits(g))

collect_search(g, failed) ==
    IF failed THEN Returned(<<>>) ELSE Returned(SearchHits(g))

\* The warning records of the logger: which search gather or which fetch
\* (the place in user_repos of its repository) a record is about.
Warning(gather, fetch) == [level |-> "WARNING", gather |-> gather, fetch |-> fetch]

\* logger.warning("Failed to search ...: %s", e) in the except clause of
\* collect_prs / collect_issues / collect_reviews
search_log(g, failed) == IF failed THEN {Warning(g, 0)} ELSE {}

\* the except clause of _fetch_repo_commits: "return []" and nothing else
fetch_log(q, failed) == {}

\* _fetch_repo_commits(owner, repo, ...): likewise, without a log record.
fetch_repo_commits(owner, repo, failed) ==
    LET from_repo(c) == from_api(c, owner \o <<"/">> \o repo)
    IN IF failed THEN Returned(<<>>)
       ELSE Returned(Map(from_repo, HistoryOf(owner \o <<"/">> \o repo)))

\* "Merge and deduplicate": the loop over repo_commits
RECURSIVE merge(_, _, _)
merge(commits, seen_shas, repo_commits) ==
    IF repo_commits = <<>> THEN commits
    ELSE LET commit == Head(repo_commits)
         IN IF commit.sha \notin seen_shas
            THEN merge(Append(commits, commit), seen_shas \cup {commit.sha},
                       Tail(repo_commits))
            ELSE merge(commits, seen_shas, Tail(repo_commits))

\* ActivityData(...)
ActivityData(events, commits, pull_requests, issues, reviews) ==
    [events |-> events, commits |-> commits, pull_requests |-> pull_requests,
     issues |-> issues, reviews |-> reviews]

\* collect_activity from "Collect commits from user's repos if provided" on,
\* up to its next await or its return.
AfterSearch(c) ==
    IF c.user_repos # <<>>
    THEN [c EXCEPT !.pc = "batch", !.i = 0, !.all_commits = <<>>]
    ELSE [c EXCEPT !.pc = "returned",
                   !.result = ActivityData(c.events, c.commits_from_events,
                                           c.prs, c.issues, c.reviews)]

\* "max_pages: int = 10" of collect_events and of get_user_events
EVENTS_MAX_PAGES == 10

\* a cap that follows the depth of the collection
events_max_pages_by_depth(deep) == IF deep THEN 3 * EVENTS_MAX_PAGES ELSE EVENTS_MAX_PAGES

\* "events = await self.collect_events(username)": max_pages is left to its
\* default, which get_user_events hands to get_paginated.
events_max_pages(deep) == EVENTS_MAX_PAGES

\* collect_activity(username, since, until, deep, user_repos) is called on a
\* collector built with is_authenticated; it awaits collect_events.
CallCollect(is_authenticated, deep, user_repos) ==
    /\ collect.pc = "idle"
    /\ collect' = [pc |-> "events", max_pages |-> events_max_pages(deep),
                   is_authenticated |-> is_authenticated,
                   deep |-> deep, user_repos |-> user_repos,
                   events |-> <<>>, commits_from_events |-> <<>>,
                   prs |-> <<>>, issues |-> <<>>, reviews |-> <<>>,
                   i |-> 0, all_commits |-> <<>>, result |-> None, log |-> {}]
    /\ fstate' = [p \in 1..Len(user_repos) |-> "pending"]
    /\ UNCHANGED <<gstate, notCollect>>

\* collect_events returns the feed: quick mode returns at once; deep mode
\* starts the three search gathers if authenticated and goes on to the
\* commits otherwise.
EventsReturn(events) ==
    /\ collect.pc = "events"
    /\ LET commits_from_events == extract_commits_from_events(events)
           c == [collect EXCEPT !.events = events,
                                !.commits_from_events = commits_from_events]
       IN IF ~c.deep
          THEN /\ collect' = [c EXCEPT !.pc = "returned",
                                       !.result = ActivityData(events, commits_from_events,
                                                               <<>>, <<>>, <<>>)]
               /\ gstate' = gstate
          ELSE IF c.is_authenticated
          THEN /\ collect' = [c EXCEPT !.pc = "search"]
               /\ gstate' = [g \in SearchGathers |-> "running"]
          ELSE /\ collect' = AfterSearch(c)
               /\ gstate' = gstate
    /\ UNCHANGED <<fstate, notCollect>>

\* collect_events raises: nothing wraps it.
EventsRaise ==
    /\ collect.pc = "events"
    /\ collect' = [collect EXCEPT !.pc = "raised"]
    /\ UNCHANGED <<gstate, fstate, notCollect>>

\* One of collect_prs / collect_issues / collect_reviews finishes; an
\* exception leaving it would leave asyncio.gather and collect_activity.
GatherDone(g, failed) ==
    /\ collect.pc = "search"
    /\ gstate[g] = "running"
    /\ gstate' = [gstate EXCEPT ![g] = IF failed THEN "failed" ELSE "ok"]
    /\ collect' = IF collect_search(g, failed).type = "return"
                  THEN [collect EXCEPT !.log = @ \cup search_log(g, failed)]
                  ELSE [collect EXCEPT !.pc = "raised"]
    /\ UNCHANGED <<fstate, notCollect>>

\* prs, issues, reviews = await asyncio.gather(...) returns.
SearchJoin ==
    /\ collect.pc = "search"
    /\ \A g \in SearchGathers : gstate[g] \in {"ok", "failed"}
    /\ LET value(g) == collect_search(g, gstate[g] = "failed").value
       IN collect' = AfterSearch([collect EXCEPT !.prs = value("prs"),
                                                 !.issues = value("issues"),
                                                 !.reviews = value("reviews")])
    /\ UNCHANGED <<gstate, fstate, notCollect>>

\* The positions in user_repos of the repositories of the batch at offset i
\* that get a task: those whose name has two parts.
BatchTasks(repos, i) ==
    LET batch == slice(repos, i, i + BATCH_SIZE)
    IN SelectSeq([j \in 1..Len(batch) |-> i + j],
                 LAMBDA q : Len(split(repos[q])) = 2)

\* collect_commits_from_repos, one round of "for i in range(0, len(repos),
\* batch_size)" up to its await: the tasks of the batch are handed to
\* asyncio.gather together.
BatchStart ==
    /\ collect.pc = "batch"
    /\ collect.i < Len(collect.user_repos)
    /\ LET tasks == BatchTasks(collect.user_repos, collect.i)
       IN IF tasks = <<>>
          THEN /\ collect' = [collect EXCEPT !.i = @ + BATCH_SIZE]
               /\ fstate' = fstate
          ELSE /\ collect' = [collect EXCEPT !.pc = "gather"]
               /\ fstate' = [q \in DOMAIN fstate |->
                                IF \E j \in 1..Len(tasks) : tasks[j] = q
                                THEN "running" ELSE fstate[q]]
    /\ UNCHANGED <<gstate, notCollect>>

\* One _fetch_repo_commits of the batch finishes.
FetchDone(q, failed) ==
    /\ collect.pc = "gather"
    /\ fstate[q] = "running"
    /\ fstate' = [fstate EXCEPT ![q] = IF failed THEN "failed" ELSE "ok"]
    /\ collect' = [collect EXCEPT !.log = @ \cup fetch_log(q, failed)]
    /\ UNCHANGED <<gstate, notCollect>>

RECURSIVE Concat(_)
Concat(lists) == IF lists = <<>> THEN <<>> ELSE Head(lists) \o Concat(Tail(lists))

\* results = await asyncio.gather(*tasks, return_exceptions=True) returns:
\* every result that is a list extends all_commits, then the next round.
BatchJoin ==
    /\ collect.pc = "gather"
    /\ \A q \in DOMAIN fstate : fstate[q] # "running"
    /\ LET repos == collect.user_repos
           batch == slice(repos, collect.i, collect.i + BATCH_SIZE)
           tasks == BatchTasks(repos, collect.i)
           result(q) == LET parts == split(repos[q])
                        IN fetch_repo_commits(parts[1], parts[2], fstate[q] = "failed")
           results == Map(result, tasks)
           lists == SelectSeq(zip(batch, results), LAMBDA z : z[2].type = "return")
           value(z) == z[2].value
       IN collect' = [collect EXCEPT !.pc = "batch",
                                     !.i = @ + BATCH_SIZE,
                                     !.all_commits = @ \o Concat(Map(value, lists))]
    /\ UNCHANGED <<gstate, fstate, notCollect>>

\* collect_commits_from_repos returns: its commits are merged into the
\* event commits, skipping every SHA already seen, and the data is returned.
MergeReturn ==
    /\ collect.pc = "batch"
    /\ collect.i >= Len(collect.user_repos)
    /\ LET commits == collect.commits_from_events
           seen_shas == {commits[k].sha : k \in 1..Len(commits)}
           merged == merge(commits, seen_shas, collect.all_commits)
       IN collect' = [collect EXCEPT !.pc = "returned",
                                     !.result = ActivityData(collect.events, merged,
                                                             collect.prs, collect.issues,
                                                             collect.reviews)]
    /\ UNCHANGED <<gstate, fstate, notCollect>>

\* "except <cls>" catches exc: asyncio.CancelledError derives from
\* BaseException, not from Exception; every error of a request from Exception.
except_catches_all(cls, exc) == TRUE

except_catches(cls, exc) ==
    \/ cls = "BaseException"
    \/ cls = exc
    \/ cls = "Exception" /\ exc # "CancelledError"

\* A sub-task suspended at an await has CancelledError raised there: the
\* "except Exception" of collect_prs / collect_issues / collect_reviews and
\* of _fetch_repo_commits either lets it through, and the task ends
\* cancelled, or catches it, and the task returns [].
unwound(state) ==
    IF state # "cancel_requested" THEN state
    ELSE IF except_catches("Exception", "CancelledError") THEN "swallowed"
    ELSE "cancelled"

\* The task running collect_activity is cancelled while it awaits
\* collect_events or one of its two asyncio.gather calls: cancelling the
\* gather requests the cancellation of every child that is not done.
Cancel ==
    /\ collect.pc \in {"events", "search", "gather"}
    /\ collect' = [collect EXCEPT !.pc = "cancelling"]
    /\ gstate' = [g \in SearchGathers |->
                    IF gstate[g] = "running" THEN "cancel_requested" ELSE gstate[g]]
    /\ fstate' = [q \in DOMAIN fstate |->
                    IF fstate[q] = "running" THEN "cancel_requested" ELSE fstate[q]]
    /\ UNCHANGED notCollect

\* The event loop runs the cancelled sub-tasks, then CancelledError is
\* raised in collect_activity at its await and leaves it.
Unwind ==
    /\ collect.pc = "cancelling"
    /\ collect' = [collect EXCEPT !.pc = "cancelled"]
    /\ gstate' = [g \in SearchGathers |-> unwound(gstate[g])]
    /\ fstate' = [q \in DOMAIN fstate |-> unwound(fstate[q])]
    /\ UNCHANGED notCollect

NextCollect ==
    \/ \E a \in BOOLEAN, d \in BOOLEAN, r \in RepoLists : CallCollect(a, d, r)
    \/ \E e \in EventFeeds : EventsReturn(e)
    \/ EventsRaise
    \/ \E g \in SearchGathers, f \in BOOLEAN : GatherDone(g, f)
    \/ SearchJoin
    \/ BatchStart
    \/ \E q \in DOMAIN fstate, f \in BOOLEAN : FetchDone(q, f)
    \/ BatchJoin
    \/ MergeReturn
    \/ Cancel
    \/ Unwind

InitCollect ==
    /\ LedgerInit /\ HistInit /\ CallerInit /\ SendIdle /\ DrainIdle /\ CollectIdle
    /\ ModelsIdle /\ ServerIdle

SpecCollect == InitCollect /\ [][NextCollect]_vars

----------------------------------------------------------------------------
\* ContributionCalendar (models/contribution.py).  A reply of the query API
\* holds the calendar as weeks of contributionDays; a date is the number of
\* the day in the period asked for.

MaxDays == 3
MaxCount == 2

\* The days of a reply with the given counts, in chronological order.
DayData(counts) ==
    [i \in 1..Len(counts) |-> [date |-> i, contributionCount |-> counts[i]]]

\* The weeks of a reply whose weeks end after the days in `cuts` (and after
\* the last day).
WeekData(counts, cuts) ==
    LET week_of(i) == Cardinality({c \in cuts : c < i}) + 1
        n_weeks == IF Len(counts) = 0 THEN 0 ELSE Cardinality(cuts) + 1
    IN [k \in 1..n_weeks |->
            [contributionDays |->
                SelectSeq(DayData(counts), LAMBDA d : week_of(d.date) = k)]]

RECURSIVE SumCounts(_)
SumCounts(counts) ==
    IF Len(counts) = 0 THEN 0 ELSE Head(counts) + SumCounts(Tail(counts))

\* The contributionCalendar objects of a reply: totalContributions is the
\* server's own sum, or the key is missing.
CalendarData ==
    UNION {{[totalContributions |-> total, weeks |-> WeekData(counts, cuts)] :
                total \in {Nil, Some(SumCounts(counts))},
                cuts \in SUBSET (1..(Len(counts) - 1))} :
           counts \in UNION {[1..n -> 0..MaxCount] : n \in 0..MaxDays}}

\* ContributionDay.from_graphql
day_from_graphql(data) == [date |-> data.date, count |-> data.contributionCount]

\* ContributionWeek.from_graphql
week_from_graphql(data) ==
    [days |-> [i \in 1..Len(data.contributionDays) |->
                    day_from_graphql(data.contributionDays[i])]]

\* ContributionCalendar.from_graphql
calendar_from_graphql(data) ==
    [total_contributions |->
        IF data.totalContributions = Nil THEN 0 ELSE data.totalContributions[1],
     weeks |-> [k \in 1..Len(data.weeks) |-> week_from_graphql(data.weeks[k])]]

\* "for week in self.weeks: for day in week.days: all_days.append(day)"
RECURSIVE all_days(_)
all_days(weeks) ==
    IF Len(weeks) = 0 THEN <<>>
    ELSE all_days(SubSeq(weeks, 1, Len(weeks) - 1)) \o weeks[Len(weeks)].days

\* "for week in reversed(self.weeks): for day in reversed(week.days)"
reversed(seq) == [i \in 1..Len(seq) |-> seq[Len(seq) + 1 - i]]

RECURSIVE all_days_reversed(_)
all_days_reversed(weeks) ==
    IF Len(weeks) = 0 THEN <<>>
    ELSE reversed(weeks[Len(weeks)].days)
            \o all_days_reversed(SubSeq(weeks, 1, Len(weeks) - 1))

\* a tie that the later day wins
busier_or_equal(day, busiest) ==
    IF busiest = None THEN TRUE ELSE day.count >= busiest.count

\* "if busiest is None or day.count > busiest.count"
busier(day, busiest) == IF busiest = None THEN TRUE ELSE day.count > busiest.count

\* ContributionCalendar.get_busiest_day
RECURSIVE busiest_of(_, _)
busiest_of(days, busiest) ==
    IF Len(days) = 0 THEN busiest
    ELSE busiest_of(Tail(days), IF busier(Head(days), busiest) THEN Head(days) ELSE busiest)

get_busiest_day(cal) == busiest_of(all_days(cal.weeks), None)

\* the loop of get_streak: "streak += 1" until the first day with count 0
RECURSIVE streak_of(_)
streak_of(days) ==
    IF Len(days) = 0 THEN 0
    ELSE IF Head(days).count > 0 THEN 1 + streak_of(Tail(days))
    ELSE 0

\* a streak that ends where the last week begins
get_streak_last_week(cal) ==
    IF Len(cal.weeks) = 0 THEN 0
    ELSE streak_of(reversed(cal.weeks[Len(cal.weeks)].days))

\* ContributionCalendar.get_streak
get_streak(cal) == streak_of(all_days_reversed(cal.weeks))

\* the loop of get_longest_streak
RECURSIVE longest_of(_, _, _)
longest_of(days, longest, current) ==
    IF Len(days) = 0 THEN longest
    ELSE IF Head(days).count > 0
         THEN longest_of(Tail(days), Max(longest, current + 1), current + 1)
         ELSE longest_of(Tail(days), longest, 0)

\* a longest streak whose runs end with their week
RECURSIVE longest_within_weeks(_)
longest_within_weeks(weeks) ==
    IF Len(weeks) = 0 THEN 0
    ELSE Max(longest_of(Head(weeks).days, 0, 0), longest_within_weeks(Tail(weeks)))

get_longest_streak_per_week(cal) == longest_within_weeks(cal.weeks)

\* ContributionCalendar.get_longest_streak
get_longest_streak(cal) == longest_of(all_days(cal.weeks), 0, 0)

\* ContributionStats.total_contributions
total_contributions(cal) == cal.total_contributions

\* A method of the calendar is called; the calendar is left as it is.
CalendarCall(op, value) ==
    /\ report' = [op |-> op, value |-> value]
    /\ UNCHANGED <<calendar, notCalendar>>

GetStreak == CalendarCall("get_streak", get_streak(calendar))
GetLongestStreak == CalendarCall("get_longest_streak", get_longest_streak(calendar))
GetBusiestDay == CalendarCall("get_busiest_day", get_busiest_day(calendar))
TotalContributions == CalendarCall("total_contributions", total_contributions(calendar))

NextCalendar ==
    \/ GetStreak
    \/ GetLongestStreak
    \/ GetBusiestDay
    \/ TotalContributions

EngineIdle ==
    /\ LedgerInit /\ HistInit /\ CallerInit /\ SendIdle /\ DrainIdle /\ CollectIdle
    /\ ServerIdle

InitCalendar ==
    /\ EngineIdle /\ SdkIdle /\ ProfileIdle /\ LinkIdle
    /\ calendar \in {calendar_from_graphql(data) : data \in CalendarData}
    /\ report = [op |-> "none"]

SpecCalendar == InitCalendar /\ [][NextCalendar]_vars

----------------------------------------------------------------------------

\* get_rate_limiter / reset_rate_limiter (utils/rate_limiter.py) and
\* GitHubResearcher (sdk.py).  A RateLimiter is known by its identity, its
\* place in `limiters`; a data method is followed up to its first request.

MaxSdkOps == 4

DataMethods == {"get_profile", "get_repos", "get_contributions", "get_activity",
                "get_activity_summary", "analyze"}

\* a get_rate_limiter that creates an instance at every call
limiter_always_missing(global) == TRUE

\* "if _rate_limiter is None"
limiter_is_missing(global) == global = Nil

\* get_rate_limiter(): the global and the instances after the call; the
\* global is then the instance returned.
get_rate_limiter(global, instances) ==
    IF limiter_is_missing(global)
    THEN [global |-> Some(Len(instances) + 1),
          instances |-> Append(instances, RateLimiterInit)]
    ELSE [global |-> global, instances |-> instances]

\* GitHubRestClient.__init__ / GitHubGraphQLClient.__init__ with an explicit
\* rate_limiter: no httpx client yet.
Transport(limiter) == [rate_limiter |-> limiter, client |-> "None"]

\* _get_client: "if self._client is None or self._client.is_closed" a new
\* httpx.AsyncClient is made.
get_client(transport) == [transport EXCEPT !.client = "open"]

\* GitHubRestClient.close / GitHubGraphQLClient.close
transport_close(transport) ==
    IF transport.client = "open" THEN [transport EXCEPT !.client = "closed"]
    ELSE transport

\* "if self._rest_client: await self._rest_client.close()"
close_if_set(optional) ==
    IF optional = Nil THEN Nil ELSE Some(transport_close(optional[1]))

\* a guard that only asks whether the object was ever entered
never_entered(self) == self.rest_client = Nil

\* _ensure_initialized raises: "if not self._initialized"
not_initialized(self) == ~self.initialized

ClientNotInitialized ==
    [type |-> "GitHubResearcherError", message |-> "Client not initialized"]

SdkStep(s, op, outcome, net) ==
    /\ sdk_ops < MaxSdkOps
    /\ sdk_ops' = sdk_ops + 1
    /\ sdkcall' = [op |-> op, sdk |-> s, outcome |-> outcome, net |-> net]

\* async with GitHubResearcher(...): __aenter__ calls _initialize.
Enter(s) ==
    /\ SdkStep(s, "enter", Returned(None), 0)
    /\ session' = [session EXCEPT ![s] = TRUE]
    /\ IF sdk[s].initialized
       THEN UNCHANGED <<rate_limiter, limiters, sdk, gets>>
       ELSE LET got == get_rate_limiter(rate_limiter, limiters)
            IN /\ rate_limiter' = got.global
               /\ limiters' = got.instances
               /\ gets' = gets \cup {got.global[1]}
               /\ sdk' = [sdk EXCEPT ![s] =
                    [@ EXCEPT !.rate_limiter = got.global,
                              !.rest_client = Some(Transport(got.global[1])),
                              !.graphql_client =
                                    IF sdk[s].token THEN Some(Transport(got.global[1]))
                                    ELSE @,
                              !.initialized = TRUE]]
    /\ UNCHANGED notSdk

\* close(), also run by __aexit__
Close(s) ==
    /\ SdkStep(s, "close", Returned(None), 0)
    /\ session' = [session EXCEPT ![s] = FALSE]
    /\ sdk' = [sdk EXCEPT ![s] =
            [@ EXCEPT !.rest_client = close_if_set(@),
                      !.graphql_client = close_if_set(@),
                      !.initialized = FALSE]]
    /\ UNCHANGED <<rate_limiter, limiters, gets, notSdk>>

\* The transport of a method's first request: get_contributions asks the
\* query client, every other method starts with a request of the REST client.
first_transport(method) ==
    IF method = "get_contributions" THEN "graphql_client" ELSE "rest_client"

\* A data method is called and runs to the await of its first network call.
DataMethod(s, method) ==
    LET self == sdk[s]
        field == first_transport(method)
        pool == IF field = "graphql_client" THEN "graphql" ELSE "rest"
    IN IF not_initialized(self)
       THEN /\ SdkStep(s, method, ClientNotInitialized, 0)
            /\ UNCHANGED <<rate_limiter, limiters, sdk, session, gets, notSdk>>
       ELSE IF self[field] = Nil
       THEN \* "if not self._graphql_client: ... return None"
            /\ SdkStep(s, method, Returned(None), 0)
            /\ UNCHANGED <<rate_limiter, limiters, sdk, session, gets, notSdk>>
       ELSE LET id == self[field][1].rate_limiter
                state == limiters[id][pool]
            IN IF acquire_raises(state, 1, now)
               THEN /\ SdkStep(s, method, Raised("RateLimitExceededError"), 0)
                    /\ UNCHANGED <<rate_limiter, limiters, sdk, session, gets, notSdk>>
               ELSE /\ SdkStep(s, method, [type |-> "request"], 1)
                    /\ limiters' = [limiters EXCEPT ![id][pool] = deduct(@, 1)]
                    /\ sdk' = [sdk EXCEPT ![s][field] = Some(get_client(@[1]))]
                    /\ UNCHANGED <<rate_limiter, session, gets, notSdk>>

\* get_rate_limiter() called directly, as a transport built without an
\* explicit rate_limiter does ("rate_limiter or get_rate_limiter()").
GetRateLimiter ==
    LET got == get_rate_limiter(rate_limiter, limiters)
    IN /\ SdkStep(0, "get_rate_limiter", Returned(got.global[1]), 0)
       /\ rate_limiter' = got.global
       /\ limiters' = got.instances
       /\ gets' = gets \cup {got.global[1]}
       /\ UNCHANGED <<sdk, session, notSdk>>

\* reset_rate_limiter()
ResetRateLimiter ==
    /\ SdkStep(0, "reset_rate_limiter", Returned(None), 0)
    /\ rate_limiter' = Nil
    /\ gets' = {}
    /\ UNCHANGED <<limiters, sdk, session, notSdk>>

NextSdk ==
    \/ \E s \in Sdks : Enter(s)
    \/ \E s \in Sdks : Close(s)
    \/ \E s \in Sdks, method \in DataMethods : DataMethod(s, method)
    \/ GetRateLimiter
    \/ ResetRateLimiter

InitSdk ==
    /\ EngineIdle /\ CalendarIdle /\ ProfileIdle /\ LinkIdle
    /\ rate_limiter = Nil
    /\ limiters = <<>>
    /\ sdk \in {[s \in Sdks |-> GitHubResearcher(tokens[s])] : tokens \in [Sdks -> BOOLEAN]}
    /\ sdk_ops = 0
    /\ sdkcall = NoCall
    /\ session = [s \in Sdks |-> FALSE]
    /\ gets = {}

SpecSdk == InitSdk /\ [][NextSdk]_vars

----------------------------------------------------------------------------

\* GitHubResearcher.get_profile over ProfileCollector.collect_full
\* (sdk.py, services/profile_collector.py).  A username is a number; the
\* server answers the endpoints of a user it does not know with 404.

NumUsers == 3
Usernames == 1..NumUsers

\* The server's answer to GET /users/{username} and /users/{username}/orgs.
UserReply(username, known) ==
    Response(IF username \in known THEN 200 ELSE 404, EmptyObject, <<>>)

\* rest_client.get_user / get_user_orgs: what _request does with the reply
request_result(response) ==
    LET result == rest_classify(response)
    IN IF result.type = "return" THEN Returned(response.body) ELSE Raised(result.type)

\* collect_profile: "except GitHubNotFoundError: raise ValueError(...)"
collect_profile(response) ==
    LET result == request_result(response)
    IN IF result.type = "return" THEN Returned("UserProfile")
       ELSE IF except_catches("GitHubNotFoundError", result.type) THEN Raised("ValueError")
       ELSE result

\* collect_social with include_followers = include_following = False: the
\* organisations only, and no except clause.
collect_social(response) ==
    LET result == request_result(response)
    IN IF result.type = "return" THEN Returned("SocialData") ELSE result

\* asyncio.gather(profile_task, social_task): the first exception a child
\* raises is the outcome at once; the results are, once both have returned.
gathered(outcome, result, other) ==
    IF outcome # Nil THEN outcome
    ELSE IF result.type # "return" THEN Some(result)
    ELSE IF other.state = "done" THEN Some(Returned("FullUserData"))
    ELSE Nil

UserNotFoundError(username) == [type |-> "UserNotFoundError", username |-> username]

\* get_profile: "except ValueError as e: raise UserNotFoundError(username) from e"
get_profile(username, outcome) ==
    IF outcome.type = "return" THEN outcome
    ELSE IF except_catches("ValueError", outcome.type) THEN UserNotFoundError(username)
    ELSE outcome

\* get_profile(username) is called on an initialized client: collect_full
\* makes the two coroutines and awaits their gather.
CallGetProfile(username) ==
    /\ getp.pc = "idle"
    /\ getp' = [pc |-> "gather", username |-> username, gather |-> Nil, outcome |-> Nil]
    /\ ptask' = [state |-> "request"]
    /\ stask' = [state |-> "request"]
    /\ UNCHANGED <<users, notProfile>>

\* The reply to GET /users/{username} arrives and collect_profile ends.
ProfileDone ==
    /\ ptask.state = "request"
    /\ LET result == collect_profile(UserReply(getp.username, users))
       IN /\ ptask' = [state |-> "done", result |-> result]
          /\ getp' = [getp EXCEPT !.gather = gathered(@, result, stask)]
    /\ UNCHANGED <<users, stask, notProfile>>

\* The reply to GET /users/{username}/orgs arrives and collect_social ends.
SocialDone ==
    /\ stask.state = "request"
    /\ LET result == collect_social(UserReply(getp.username, users))
       IN /\ stask' = [state |-> "done", result |-> result]
          /\ getp' = [getp EXCEPT !.gather = gathered(@, result, ptask)]
    /\ UNCHANGED <<users, ptask, notProfile>>

\* The await of the gather resumes get_profile with its outcome.
GatherResume ==
    /\ getp.pc = "gather"
    /\ getp.gather # Nil
    /\ getp' = [getp EXCEPT !.pc = "done",
                            !.outcome = Some(get_profile(getp.username, getp.gather[1]))]
    /\ UNCHANGED <<users, ptask, stask, notProfile>>

NextProfile ==
    \/ \E username \in Usernames : CallGetProfile(username)
    \/ ProfileDone
    \/ SocialDone
    \/ GatherResume

InitProfile ==
    /\ EngineIdle /\ CalendarIdle /\ SdkIdle /\ LinkIdle
    /\ users \in SUBSET Usernames
    /\ getp = [pc |-> "idle"]
    /\ ptask = [state |-> "idle"]
    /\ stask = [state |-> "idle"]

SpecProfile == InitProfile /\ [][NextProfile]_vars

----------------------------------------------------------------------------

\* parse_link_header / get_next_page_url on the texts of Link headers
\* (utils/pagination.py).

MaxLinks == 2

Rels == {RelNext, RelPrev, RelLast, RelFirst}

\* URLs a link may carry: of a page, and one with a comma in its query.
LinkUrls == {Url(1), Url(2), <<"2", ",", "3">>}

\* The links of a header: each relation at most once.
LinkLists ==
    UNION {{links \in [1..n -> {Link(url, rel) : url \in LinkUrls, rel \in Rels}] :
                \A i, j \in 1..n : i # j => links[i].rel # links[j].rel} :
           n \in 1..MaxLinks}

\* Whitespace after the semicolon, and what separates two links.
Gaps == {<<>>, <<" ">>}
Separators == {<<",">>, <<",", " ">>}

\* A response with the header, with an empty header, or without one.
ResponseHeader(links, gap, sep) ==
    /\ sent = links
    /\ the_header = CASE links # <<>> -> Some(HeaderText(links, gap, sep))
                       [] links = <<>> /\ gap = <<>> -> Nil
                       [] OTHER -> Some(<<>>)

LinkCall(op, value) ==
    /\ parsed' = [op |-> op, value |-> value]
    /\ UNCHANGED <<sent, the_header, notLink>>

ParseLinkHeader == LinkCall("parse_link_header", parse_link_header(the_header))
GetNextPageUrl == LinkCall("get_next_page_url", get_next_page_url(the_header))

NextLink ==
    \/ ParseLinkHeader
    \/ GetNextPageUrl

InitLink ==
    /\ EngineIdle /\ CalendarIdle /\ SdkIdle /\ ProfileIdle
    /\ \E links \in LinkLists \cup {<<>>}, gap \in Gaps, sep \in Separators :
            ResponseHeader(links, gap, sep)
    /\ parsed = [op |-> "none"]

SpecLink == InitLink /\ [][NextLink]_vars

----------------------------------------------------------------------------

----------------------------------------------------------------------------
\* SpecServer: concurrent _request calls on the rest pool against a server
\* that counts the requests of the window.  The server answers a request
\* from its own count; the response travels back and is handled whenever it
\* arrives.  The clock stays before the end of the window.

ServerQuota == MaxQuota + 1
MaxRequests == 3

\* the end of the server's window
ServerReset == MaxTime + 8

\* The quota headers of a response written when `remaining` requests are left.
server_headers(remaining) ==
    [n \in HeaderNames |->
        CASE n = "x-ratelimit-limit" -> Digits(UNAUTH_LIMIT)
          [] n = "x-ratelimit-remaining" -> Digits(remaining)
          [] n = "x-ratelimit-reset" -> Digits(ServerReset)]

\* The server's answer to one request: it is counted and answered 200, or,
\* with nothing left, refused with 403 and the rate-limit message.
server_response(left) ==
    IF left > 0
    THEN Response(200, EmptyBody, server_headers(left - 1))
    ELSE Response(403, ObjectBody(Message(MsgRateMixed)), server_headers(0))

\* The request of send t reaches the server.
ServerHandle(t) ==
    /\ spc[t] = "request"
    /\ reply[t] = Nil
    /\ reply' = [reply EXCEPT ![t] = Some(server_response(quota))]
    /\ quota' = IF quota > 0 THEN quota - 1 ELSE quota
    /\ lastResp' = NoResp
    /\ UNCHANGED <<ledgerVars, callerVars, histVars, hasToken, spc, skind, sattempt, sout,
                   snet, sacq, sshort, sretry_ok, drainVars, collectVars, modelVars>>

\* The response to send t arrives: "response = await client.request(...)"
\* returns and _request goes on to _update_rate_limit.
Deliver(t) ==
    /\ reply[t] # Nil
    /\ Respond(t, reply[t][1], FALSE)

\* The task of send t calls _request again.
NextRequest(t) ==
    /\ spc[t] = "done"
    /\ sacq[1] + sacq[2] < MaxRequests
    /\ spc' = [spc EXCEPT ![t] = "idle"]
    /\ sout' = [sout EXCEPT ![t] = "none"]
    /\ sattempt' = [sattempt EXCEPT ![t] = 0]
    /\ sshort' = [sshort EXCEPT ![t] = FALSE]
    /\ reply' = [reply EXCEPT ![t] = Nil]
    /\ lastResp' = NoResp
    /\ UNCHANGED <<ledgerVars, callerVars, histVars, hasToken, skind, snet, sacq,
                   sretry_ok, drainVars, collectVars, modelVars, quota>>

NextServer ==
    \/ \E t \in SendTasks : StartSend(t, "rest")
    \/ \E t \in SendTasks : SendLockEnter(t)
    \/ \E t \in SendTasks : SendAcquire(t)
    \/ \E t \in SendTasks : ServerHandle(t)
    \/ \E t \in SendTasks : Deliver(t)
    \/ \E t \in SendTasks : NextRequest(t)

\* The limiter has taken the server's count from the headers of an earlier
\* response; no send is in progress.
InitServer ==
    /\ quota \in 1..ServerQuota
    /\ pools = [RateLimiterInit EXCEPT
                    !["rest"] = update_from_headers(@, server_headers(quota))]
    /\ lock = NoTask
    /\ now = 0
    /\ HistInit /\ CallerInit
    /\ hasToken = FALSE
    /\ spc = [t \in Tasks |-> "idle"]
    /\ skind = [t \in Tasks |-> "rest"]
    /\ sattempt = [t \in Tasks |-> 0]
    /\ sout = [t \in Tasks |-> "none"]
    /\ snet = [t \in Tasks |-> 0]
    /\ sacq = [t \in Tasks |-> 0]
    /\ sshort = [t \in Tasks |-> FALSE]
    /\ sretry_ok = [t \in Tasks |-> TRUE]
    /\ lastResp = NoResp
    /\ reply = [t \in Tasks |-> Nil]
    /\ DrainIdle /\ CollectIdle /\ ModelsIdle

SpecServer == InitServer /\ [][NextServer]_vars

\* Claims about the limiter (SpecLedger).

C4_ObserveOverwrites ==
    lastObs.pool # "none" =>
        LET h == lastObs.headers
            state == pools[lastObs.pool]
        IN /\ state.limit =
                IF "x-ratelimit-limit" \in DOMAIN h
                THEN HeaderValue(h["x-ratelimit-limit"]) ELSE lastObs.before.limit
           /\ state.remaining =
                IF "x-ratelimit-remaining" \in DOMAIN h
                THEN HeaderValue(h["x-ratelimit-remaining"]) ELSE lastObs.before.remaining
           /\ state.reset_time =
                IF "x-ratelimit-reset" \in DOMAIN h
                THEN HeaderValue(h["x-ratelimit-reset"]) ELSE lastObs.before.reset_time

\* A full header update has just replaced a remaining that acquires had
\* deducted from, with a different value.
C4_Witness ==
    /\ lastObs.pool # "none"
    /\ lastObs.deducted > 0
    /\ DOMAIN lastObs.headers = HeaderNames
    /\ lastObs.before.remaining # pools[lastObs.pool].remaining
    /\ pools[lastObs.pool] = RateLimitState(UNAUTH_LIMIT, MaxQuota, MaxTime + 8)

\* An update without the remaining header has just kept a deducted remaining.
C4_WitnessAbsent ==
    /\ lastObs.pool # "none"
    /\ lastObs.deducted > 0
    /\ DOMAIN lastObs.headers = {"x-ratelimit-limit"}
    /\ pools[lastObs.pool].remaining = lastObs.before.remaining

----------------------------------------------------------------------------
\* Claims about the transports (SpecSend, SpecClassify).

C2_WitnessRetry ==
    \E t \in SendTasks :
        sshort[t] /\ skind[t] = "graphql" /\ sattempt[t] = 2 /\ snet[t] = 1

\* C3: the acquire of an attempt has returned before its network call is
\* issued, and once a response is there, whatever its status, the pool of the
\* request holds what the response's headers declare by the time the send has
\* its outcome.
C3_AcquireThenObserve ==
    /\ \A t \in SendTasks :
            /\ snet[t] <= sacq[t]
            /\ spc[t] = "request" => (sacq[t] = sattempt[t] /\ snet[t] = sattempt[t])
    /\ lastResp.task # NoTask =>
            /\ pools[skind[lastResp.task]] = lastResp.declared
            /\ spc[lastResp.task] = "done"
            /\ sout[lastResp.task] # "none"

\* A 404 response carrying quota headers has just been handled.
C3_Witness ==
    /\ lastResp.task # NoTask
    /\ sout[lastResp.task] = "GitHubNotFoundError"
    /\ pools[skind[lastResp.task]] = RateLimitState(UNAUTH_LIMIT, 0, 1)

\* C5: a send issues at most 3 network calls; a further attempt follows only
\* a TimeoutException or a ConnectError; a response ends the send at once;
\* after the third attempt nothing is retried.
C5_RetryPolicy ==
    \A t \in SendTasks :
        /\ snet[t] <= 3
        /\ sattempt[t] <= 3
        /\ sretry_ok[t]
        /\ lastResp.task = t => spc[t] = "done"
        /\ spc[t] = "backoff" => sattempt[t] < 3
        /\ sout[t] = "RetryError" => (spc[t] = "done" /\ snet[t] = 3)

\* Three attempts failed and the send gave up.
C5_Witness ==
    \E t \in SendTasks :
        /\ sout[t] = "RetryError"
        /\ snet[t] = 3
        /\ sattempt[t] = 3

\* The bodies whose message contains "rate limit" when case is ignored.
RateLimitBodies == {ObjectBody(Message(MsgRateLower)), ObjectBody(Message(MsgRateMixed))}

\* The outcome the classification table gives a response of the request client.
Classified(response, result) ==
    LET status == response.status
        body == IF response.body = EmptyBody THEN EmptyObject ELSE response.body
    IN IF status = 404 THEN result.type = "GitHubNotFoundError"
       ELSE IF status = 403 THEN
            IF response.body \in RateLimitBodies
            THEN result.type = "GitHubRateLimitError"
            ELSE result.type = "GitHubAPIError" /\ result.message = "Forbidden"
       ELSE IF status >= 500 THEN
            /\ result.type = "GitHubAPIError"
            /\ result.message = "Server error"
            /\ result.status_code = status
       ELSE IF status >= 400 THEN
            /\ result.type = "GitHubAPIError"
            /\ result.message = "API error"
            /\ result.status_code = status
            /\ result.response_body = body
       ELSE result = Returned(response)

\* C6: every response the request client receives is classified by its status
\* and body: 404 not found, 403 with a rate-limit message the rate-limit
\* error, any other 403 forbidden, >= 500 a server error with the status, any
\* other >= 400 an API error with status and body, < 400 the response.
C6_ClassificationTotal ==
    (lastResp.task # NoTask /\ skind[lastResp.task] # "graphql") =>
        Classified(lastResp.response, lastResp.result)

\* C6 holds of the responses whose body is empty or a JSON object.
C6_ClassificationOfObjects ==
    (/\ lastResp.task # NoTask
     /\ skind[lastResp.task] # "graphql"
     /\ lastResp.response.body.kind \in {"empty", "object"}) =>
        Classified(lastResp.response, lastResp.result)

----------------------------------------------------------------------------
\* Claims about pagination (SpecDrain).

\* The items of pages 1..k of a collection, in the server's order.
RECURSIVE ItemsUpTo(_, _)
ItemsUpTo(collection, k) ==
    IF k = 0 THEN <<>> ELSE ItemsUpTo(collection, k - 1) \o collection[k].items

\* The pages of the collection are lists (search results, for a search).
ServedAsPages(is_search) ==
    \A k \in 1..Len(served) :
        served[k].kind = "list" \/ (is_search /\ served[k].kind = "items")

\* C9: a drain of a collection of n linked pages that returns has issued
\* exactly min(n, m) requests under page cap m, exactly n without a cap, and
\* returns the items of the pages it fetched, concatenated in server order.
C9_DrainIssuesMinRequests ==
    (drain.pc = "returned" /\ ServedAsPages(drain.is_search)) =>
        LET n == Len(served)
            fetched == IF drain.max_pages = Nil THEN n ELSE Min(n, drain.max_pages[1])
        IN /\ drain.requests = fetched
           /\ drain.all_items = ItemsUpTo(served, fetched)

\* Three full pages drained without a cap: three requests.
C9_Witness ==
    /\ drain.pc = "returned"
    /\ ServedAsPages(drain.is_search)
    /\ Len(served) = 3
    /\ drain.max_pages = Nil
    /\ drain.requests = 3
    /\ Len(drain.all_items) = 3 * MaxItems

\* Three pages drained under a cap of two: two requests.
C9_WitnessCapped ==
    /\ drain.pc = "returned"
    /\ ServedAsPages(drain.is_search)
    /\ Len(served) = 3
    /\ drain.max_pages = Some(2)
    /\ drain.requests = 2
    /\ Len(drain.all_items) = 2 * MaxItems

----------------------------------------------------------------------------
\* Claims about the collection (SpecCollect).

\* The positions of a value in a sequence.
Positions(seq, Test(_)) == {k \in 1..Len(seq) : Test(seq[k])}

\* A deep collect has returned its data.
DeepReturned == collect.pc = "returned" /\ collect.deep

\* The gather's list in the returned data.
ReturnedList(g) ==
    CASE g = "prs" -> collect.result.pull_requests
      [] g = "issues" -> collect.result.issues
      [] g = "reviews" -> collect.result.reviews

\* The fetch of user_repos[q] ran (its name is owner/name).
WellNamed(q) == \E i \in 1..MaxRepos : collect.user_repos[q] = RepoName(i)

\* C7: whichever search gathers and commit fetches fail, the collect does
\* not raise and every sibling runs to its end; in the data returned, a
\* failed search gather's list is empty and a successful one's holds its
\* hits; a failed fetch contributes no commit and every commit of a
\* successful fetch is there under its SHA.
C7_FailureIsolation ==
    /\ collect.pc = "raised" => \A g \in SearchGathers : gstate[g] = "idle"
    /\ DeepReturned =>
        /\ \A g \in SearchGathers :
            /\ gstate[g] \in {"idle", "ok", "failed"}
            /\ collect.is_authenticated => gstate[g] # "idle"
            /\ gstate[g] = "failed" => ReturnedList(g) = <<>>
            /\ gstate[g] = "ok" => ReturnedList(g) = SearchHits(g)
        /\ \A q \in DOMAIN fstate :
            /\ WellNamed(q) => fstate[q] \in {"ok", "failed"}
            /\ fstate[q] = "failed" =>
                Positions(collect.result.commits,
                          LAMBDA c : c.message = <<"B">> /\ c.repo = collect.user_repos[q]) = {}
            /\ fstate[q] = "ok" =>
                \A j \in 1..Len(HistoryOf(collect.user_repos[q])) :
                    Positions(collect.result.commits,
                              LAMBDA c : c.sha = HistoryOf(collect.user_repos[q])[j].sha) # {}

\* The reviews gather and one fetch failed; the other two gathers' hits and
\* a commit of another fetch's history are in the returned data.
C7_Witness ==
    /\ DeepReturned
    /\ gstate = [g \in SearchGathers |-> IF g = "reviews" THEN "failed" ELSE "ok"]
    /\ collect.result.reviews = <<>>
    /\ collect.result.pull_requests = SearchHits("prs")
    /\ collect.result.issues = SearchHits("issues")
    /\ \E q, r \in DOMAIN fstate :
        /\ fstate[q] = "failed"
        /\ fstate[r] = "ok"
        /\ Positions(collect.result.commits,
                     LAMBDA c : c.message = <<"B">> /\ c.repo = collect.user_repos[r]) # {}

\* The SHAs of the event feed's push commits, and of the histories fetched.
EventShas ==
    {collect.commits_from_events[k].sha : k \in 1..Len(collect.commits_from_events)}
FetchedShas ==
    UNION {{HistoryOf(collect.user_repos[q])[j].sha :
                j \in 1..Len(HistoryOf(collect.user_repos[q]))} :
           q \in {r \in DOMAIN fstate : fstate[r] = "ok"}}

\* C8: a SHA that the event feed and a fetched history both yield has exactly
\* one entry in the merged commits, the event-derived one.
C8_OneEntryPerSha ==
    DeepReturned =>
        \A sha \in EventShas \cap FetchedShas :
            LET entries == Positions(collect.result.commits, LAMBDA c : c.sha = sha)
            IN /\ Cardinality(entries) = 1
               /\ \A k \in entries : collect.result.commits[k].message = <<"A">>

\* What holds of such a SHA: each of its entries is event-derived, one per
\* push commit of the feed that has it; no history entry is added for it.
C8_EventEntriesOnly ==
    DeepReturned =>
        \A sha \in EventShas \cap FetchedShas :
            LET entries == Positions(collect.result.commits, LAMBDA c : c.sha = sha)
            IN /\ \A k \in entries : collect.result.commits[k].message = <<"A">>
               /\ Cardinality(entries) =
                    Cardinality(Positions(collect.commits_from_events, LAMBDA c : c.sha = sha))

\* The fetches in flight.
InFlight == {q \in DOMAIN fstate : fstate[q] = "running"}

\* C10: at most 5 fetches are in flight; while a fetch is in flight, every
\* fetch of an earlier group of 5 has finished and none of a later group has
\* started.
C10_BatchesOfFive ==
    /\ Cardinality(InFlight) <= 5
    /\ \A q \in InFlight, r \in DOMAIN fstate :
        /\ (r - 1) \div 5 < (q - 1) \div 5 => fstate[r] \in {"ok", "failed", "pending"}
        /\ (r - 1) \div 5 < (q - 1) \div 5 /\ WellNamed(r) => fstate[r] \in {"ok", "failed"}
        /\ (r - 1) \div 5 > (q - 1) \div 5 => fstate[r] = "pending"

\* The five fetches of the first batch are in flight together, a sixth waits.
C10_Witness ==
    /\ InFlight = 1..5
    /\ Len(collect.user_repos) > 5
    /\ fstate[6] = "pending"

\* The sixth fetch is in flight after the first five have finished.
C10_WitnessSecondBatch ==
    /\ InFlight = {6}
    /\ \A q \in 1..5 : fstate[q] \in {"ok", "failed"}

\* The collect is past the event feed: in the search gather or later.
PastEvents == collect.pc \in {"search", "batch", "gather", "returned"}

\* C11: the three search gathers are started exactly when the collect is
\* deep and authenticated; they are started together, so that none waits
\* for another, and in the data returned each gather's result is in its own
\* field whichever of them finished first.
C11_SearchGathersConcurrent ==
    /\ \A g, h \in SearchGathers : gstate[g] = "idle" <=> gstate[h] = "idle"
    /\ (\E g \in SearchGathers : gstate[g] # "idle") =>
        collect.deep /\ collect.is_authenticated
    /\ PastEvents =>
        ((collect.deep /\ collect.is_authenticated)
            <=> \A g \in SearchGathers : gstate[g] # "idle")
    /\ (collect.pc = "returned" /\ collect.deep /\ collect.is_authenticated) =>
        \A g \in SearchGathers :
            ReturnedList(g) = IF gstate[g] = "ok" THEN SearchHits(g) ELSE <<>>

\* The three gathers are in flight together.
C11_Witness ==
    /\ collect.pc = "search"
    /\ \A g \in SearchGathers : gstate[g] = "running"

\* The gather started last has finished first, the others are in flight.
C11_WitnessLastFirst ==
    /\ collect.pc = "search"
    /\ gstate = [g \in SearchGathers |-> IF g = "reviews" THEN "ok" ELSE "running"]

\* A deep collect without authentication has returned, no gather started.
C11_WitnessUnauthenticated ==
    /\ collect.pc = "returned" /\ collect.deep /\ ~collect.is_authenticated
    /\ \A g \in SearchGathers : gstate[g] = "idle"

\* The push commits of a feed, event by event, as the server lists them.
PushCommitsOf(feed) ==
    LET listed(event) ==
            IF event.type = "PushEvent" /\ "commits" \in DOMAIN event.payload.fields
            THEN [j \in 1..Len(event.payload.fields["commits"]) |->
                    [sha |-> event.payload.fields["commits"][j].sha,
                     message |-> event.payload.fields["commits"][j].message,
                     repo |-> event.repo]]
            ELSE <<>>
    IN Concat([k \in 1..Len(feed) |-> listed(feed[k])])

\* C12: a shallow collect starts no search gather and no commit fetch,
\* whatever the authentication and the repository list, and returns empty
\* pull request, issue and review lists with exactly the event-derived
\* commits.
C12_ShallowOnlyEvents ==
    (collect.pc # "idle" /\ ~collect.deep) =>
        /\ collect.pc \in {"events", "returned", "raised", "cancelling", "cancelled"}
        /\ \A g \in SearchGathers : gstate[g] = "idle"
        /\ \A q \in DOMAIN fstate : fstate[q] = "pending"
        /\ collect.pc = "returned" =>
            /\ collect.result.pull_requests = <<>>
            /\ collect.result.issues = <<>>
            /\ collect.result.reviews = <<>>
            /\ collect.result.events = collect.events
            /\ collect.result.commits = PushCommitsOf(collect.events)

\* An authenticated shallow collect with repositories has returned the two
\* push commits of its feed.
C12_Witness ==
    /\ collect.pc = "returned" /\ ~collect.deep /\ collect.is_authenticated
    /\ Len(collect.user_repos) = MaxRepos
    /\ Len(collect.result.commits) = 2

\* The states of the sub-tasks of the collect: search gathers and fetches.
SubTaskStates ==
    {gstate[g] : g \in SearchGathers} \cup {fstate[q] : q \in DOMAIN fstate}

\* C13: once the collect is cancelled no sub-task is in flight and none is
\* started; when the cancellation has left the collect, every sub-task that
\* was outstanding has ended cancelled (none went on to return a result)
\* and the collect has yielded no data.
C13_CancelReachesSubTasks ==
    /\ collect.pc \in {"cancelling", "cancelled"} =>
        /\ "running" \notin SubTaskStates
        /\ collect.result = None
    /\ collect.pc = "cancelled" =>
        SubTaskStates \subseteq {"idle", "pending", "ok", "failed", "cancelled"}

\* Cancelled during the search: one gather had finished, two were cancelled.
C13_Witness ==
    /\ collect.pc = "cancelled"
    /\ gstate = [g \in SearchGathers |-> IF g = "prs" THEN "ok" ELSE "cancelled"]

\* Cancelled during the first batch: four fetches cancelled, the sixth
\* never started.
C13_WitnessBatch ==
    /\ collect.pc = "cancelled"
    /\ Len(collect.user_repos) > 5
    /\ fstate[1] = "failed"
    /\ \A q \in 2..5 : fstate[q] = "cancelled"
    /\ fstate[6] = "pending"

\* C15: when the request for page k raises, the drain raises that error,
\* yields no items (those of pages 1..k-1 included), has issued exactly the
\* k requests of pages 1..k, and does nothing more.
C15_FailedPageAbortsDrain ==
    /\ []((drain.pc # "idle" /\ drain.transport_error # "none") =>
            /\ drain.pc = "raised"
            /\ drain.error = drain.transport_error
            /\ drain.error \in TransportErrors
            /\ drain.yielded = Nil
            /\ drain.requests = drain.page)
    /\ [][drain.pc = "raised" => drain' = drain]_vars

\* The request for page 2 failed after page 1 had given items.
C15_Witness ==
    /\ drain.pc = "raised"
    /\ drain.page = 2
    /\ drain.requests = 2
    /\ Len(drain.all_items) = MaxItems
    /\ drain.error = "GitHubAPIError"

\* The body of the page the drain last asked for is one item: neither a
\* list nor, in a search, a search result.
SingleItemBody ==
    /\ drain.page \in 1..Len(served)
    /\ ~(served[drain.page].kind = "list"
            \/ (drain.is_search /\ served[drain.page].kind = "items"))

C14_WitnessUncapped ==
    /\ drain.pc = "returned"
    /\ drain.max_pages = Nil
    /\ drain.url = Nil
    /\ drain.requests = MaxPages

\* C16: a response with status >= 500 is retried; the server error is the
\* outcome of the send only once the 3 attempts are used up.
C16_ServerErrorRetried ==
    (/\ lastResp.task # NoTask
     /\ skind[lastResp.task] # "graphql"
     /\ lastResp.response.status >= 500
     /\ spc[lastResp.task] = "done"
     /\ lastResp.result.message = "Server error") =>
        snet[lastResp.task] = 3

\* What holds instead: the first response with status >= 500 ends the send
\* with the server error, whatever the attempt.
C16_ServerErrorEndsSend ==
    (/\ lastResp.task # NoTask
     /\ skind[lastResp.task] # "graphql"
     /\ lastResp.response.status >= 500) =>
        /\ spc[lastResp.task] = "done"
        /\ sout[lastResp.task] = "GitHubAPIError"
        /\ lastResp.result.message = "Server error"
        /\ lastResp.result.status_code = lastResp.response.status

\* C17: when a deep collect returns, every search gather and every commit
\* fetch whose failure it suppressed has a warning record about it.
C17_NoSilentSuppression ==
    DeepReturned =>
        /\ \A g \in SearchGathers :
            gstate[g] = "failed" => Warning(g, 0) \in collect.log
        /\ \A q \in DOMAIN fstate :
            fstate[q] = "failed" => Warning("none", q) \in collect.log

\* What holds: the suppressed failures of the search gathers are warned
\* about, and no warning is about anything else.
C17_SearchFailuresWarned ==
    DeepReturned =>
        collect.log = {Warning(g, 0) : g \in {h \in SearchGathers : gstate[h] = "failed"}}

\* C18: every step that changes a pool's limit, remaining or reset_time is
\* taken by a holder of the lock of that pool, and a caller waits for a lock
\* only behind a holder working on the same pool.
C18_WritesUnderOwnLock ==
    /\ [][\A p \in PoolNames :
            pools'[p] # pools[p] => (lock # NoTask /\ lpool[lock] = p)]_vars
    /\ [](\A t \in Tasks :
            (lpc[t] = "wait_lock" /\ lock # NoTask) => lpool[lock] = lpool[t])

\* What holds: the deduction of an acquire is made by the holder of the one
\* lock of the limiter, for the pool of its acquire.
C18_DeductionUnderTheLock ==
    [][\A p \in PoolNames :
        pools'[p].remaining = pools[p].remaining - 1 /\ granted'[p] # granted[p]
            => (lock # NoTask /\ lpool[lock] = p /\ lock' = NoTask)]_vars

\* C19: no step but a header update raises a pool's remaining: an acquire
\* that returns lowers it by its cost of 1, an acquire that raises and the
\* passing of time (reset_time included) leave it as it is.
C19_RemainingOnlyRaisedByUpdate ==
    [][\A p \in PoolNames :
        /\ pools'[p].remaining > pools[p].remaining => lastObs'.pool = p
        /\ granted'[p] = granted[p] + 1 => pools'[p].remaining = pools[p].remaining - 1
        /\ now' # now => pools'[p] = pools[p]]_vars

\* An acquire decided at reset_time has lowered an exhausted pool below 0:
\* the window's end did not refill it.
C19_Witness ==
    \E p \in PoolNames :
        /\ now >= pools[p].reset_time
        /\ base[p] = 0
        /\ granted[p] = 1
        /\ pools[p].remaining = -1

\* C20: with no credential configured the query transport fails when it is
\* constructed, so no execute ever runs on it, and no network call is
\* issued on any path.
C20_FailsAtConstruction ==
    ~hasToken =>
        \A t \in Tasks :
            skind[t] = "graphql" =>
                /\ spc[t] = "idle"
                /\ sacq[t] = 0
                /\ snet[t] = 0

\* What the code does: the transport is constructed, execute takes a permit
\* of the graphql pool and then raises GitHubGraphQLError out of
\* _get_headers; no network call is issued.
C20_NoNetworkWithoutToken ==
    ~hasToken =>
        \A t \in Tasks :
            skind[t] = "graphql" =>
                /\ snet[t] = 0
                /\ spc[t] \in {"idle", "wait_lock", "locked", "done"}
                /\ spc[t] = "done" =>
                        sout[t] \in {"GitHubGraphQLError", "RateLimitExceededError"}

\* C21: a query call answered with status 200 and a JSON object fails with
\* GitHubGraphQLError carrying the body's raw errors list whenever the body
\* has a top-level errors field, a data field beside it or not; otherwise
\* it returns the body's data object.
C21_ErrorsListWins ==
    (lastResp # NoResp /\ skind[lastResp.task] = "graphql"
        /\ lastResp.response.status = 200
        /\ lastResp.response.body.kind = "object") =>
        LET fields == lastResp.response.body.fields
            result == lastResp.result
        IN /\ sout[lastResp.task] = result.type
           /\ IF "errors" \in DOMAIN fields
              THEN /\ result.type = "GitHubGraphQLError"
                   /\ result.errors = fields["errors"]
              ELSE /\ result.type = "return"
                   /\ "data" \in DOMAIN fields => result.value = fields["data"]

\* A 200 response with both a data object and an errors list has been
\* turned into the query error.
C21_Witness ==
    /\ lastResp # NoResp
    /\ skind[lastResp.task] = "graphql"
    /\ lastResp.response.status = 200
    /\ lastResp.response.body.kind = "object"
    /\ DOMAIN lastResp.response.body.fields = {"data", "errors"}
    /\ sout[lastResp.task] = "GitHubGraphQLError"

\* A 200 response with a data object alone has been returned.
C21_WitnessData ==
    /\ lastResp # NoResp
    /\ skind[lastResp.task] = "graphql"
    /\ lastResp.response.status = 200
    /\ lastResp.response.body.kind = "object"
    /\ DOMAIN lastResp.response.body.fields = {"data"}
    /\ sout[lastResp.task] = "return"

\* C22: the GitHubRateLimitError raised for a 403 response with a rate-limit
\* message carries the reset time of the request's pool as observed from
\* that response's headers.
C22_RateLimitErrorCarriesReset ==
    (lastResp # NoResp /\ lastResp.result.type = "GitHubRateLimitError") =>
        /\ "reset_time" \in DOMAIN lastResp.result
        /\ lastResp.result.reset_time = pools[skind[lastResp.task]].reset_time

\* What the code does: the error carries the message, the status and the
\* body; the reset time the response declares is in the pool only.
C22_ResetIsInThePoolOnly ==
    (lastResp # NoResp /\ lastResp.result.type = "GitHubRateLimitError") =>
        /\ DOMAIN lastResp.result = {"type", "message", "status_code", "response_body"}
        /\ lastResp.result.status_code = 403
        /\ lastResp.result.response_body = lastResp.response.body
        /\ "x-ratelimit-reset" \in DOMAIN lastResp.response.headers =>
                pools[skind[lastResp.task]].reset_time =
                    HeaderValue(lastResp.response.headers["x-ratelimit-reset"])

\* C23: a send acts on the pool of its own kind only: every step that
\* changes a pool is a step of a send of that pool's kind (its acquire or
\* the handling of its response), so a send, successful or failed, leaves
\* limit, remaining and reset_time of the other two pools as they were.
C23_OtherPoolsUntouched ==
    [][\A p \in PoolNames :
        pools'[p] # pools[p] =>
            \E t \in SendTasks :
                /\ skind[t] = p
                /\ spc'[t] # spc[t]
                /\ \A q \in PoolNames \ {p} : pools'[q] = pools[q]]_vars

\* A search send has failed on a response whose headers rewrote the search
\* pool, next to a query send that took a permit of the query pool; the
\* primary pool is as constructed.
C23_Witness ==
    \E t, u \in SendTasks :
        /\ skind[t] = "search" /\ spc[t] = "done" /\ sout[t] = "GitHubNotFoundError"
        /\ pools["search"].limit = UNAUTH_LIMIT
        /\ skind[u] = "graphql" /\ sacq[u] = 1
        /\ pools["graphql"].limit = GRAPHQL_LIMIT
        /\ pools["graphql"].remaining = GRAPHQL_LIMIT - 1
        /\ pools["rest"] = RateLimitState(REST_LIMIT, REST_LIMIT, pools["rest"].reset_time)

----------------------------------------------------------------------------
\* Claims about the contribution calendar (SpecCalendar).

\* The counts of the calendar's days in chronological order, week after week.
RECURSIVE CountsOf(_)
CountsOf(weeks) ==
    IF Len(weeks) = 0 THEN <<>>
    ELSE LET week == Head(weeks).days
         IN [i \in 1..Len(week) |-> week[i].count] \o CountsOf(Tail(weeks))

CalendarCounts == CountsOf(calendar.weeks)

\* Every day from the i-th to the j-th has contributions.
Run(counts, i, j) == \A k \in i..j : counts[k] > 0

\* C24: get_streak returns the length of the longest suffix of the
\* chronological day sequence, weeks joined, whose days all have count > 0:
\* 0 when the last day has count 0 or there is no day.
C24_CurrentStreak ==
    report.op = "get_streak" =>
        LET counts == CalendarCounts
            n == Len(counts)
        IN /\ report.value \in 0..n
           /\ Run(counts, n - report.value + 1, n)
           /\ report.value < n => counts[n - report.value] = 0
           /\ (n = 0 \/ counts[n] = 0) => report.value = 0

\* The streak of a calendar of two weeks runs from the last day back into
\* the first week and stops at a day without contributions.
C24_Witness ==
    /\ report.op = "get_streak"
    /\ Len(calendar.weeks) = 2
    /\ Len(calendar.weeks[2].days) = 1
    /\ report.value = 2
    /\ Len(CalendarCounts) = 3

\* The last day has no contributions, the days before it have.
C24_WitnessZero ==
    /\ report.op = "get_streak"
    /\ CalendarCounts = <<2, 1, 0>>
    /\ report.value = 0

\* C25: get_longest_streak returns the greatest length of a run of
\* consecutive days with count > 0 in the chronological day sequence, weeks
\* joined, and 0 when no day has count > 0.
C25_LongestStreak ==
    report.op = "get_longest_streak" =>
        LET counts == CalendarCounts
            n == Len(counts)
            runs == {r \in (1..n) \X (1..n) : r[1] <= r[2] /\ Run(counts, r[1], r[2])}
        IN /\ \A r \in runs : r[2] - r[1] + 1 <= report.value
           /\ IF runs = {} THEN report.value = 0
              ELSE \E r \in runs : r[2] - r[1] + 1 = report.value

\* The longest run spans the boundary of two weeks and is not the last run.
C25_Witness ==
    /\ report.op = "get_longest_streak"
    /\ Len(calendar.weeks) = 2
    /\ Len(calendar.weeks[1].days) = 1
    /\ CalendarCounts = <<1, 2, 0>>
    /\ report.value = 2

\* C26: get_busiest_day returns None for a calendar without days, and
\* otherwise the earliest of the days whose count is the maximum.
C26_BusiestDay ==
    report.op = "get_busiest_day" =>
        LET counts == CalendarCounts
            n == Len(counts)
        IN IF n = 0 THEN report.value = None
           ELSE /\ report.value # None
                /\ report.value.date \in 1..n
                /\ report.value.count = counts[report.value.date]
                /\ \A i \in 1..n : counts[i] <= report.value.count
                /\ \A i \in 1..(report.value.date - 1) : counts[i] < report.value.count

\* Two days share the maximum and the earlier one is returned.
C26_Witness ==
    /\ report.op = "get_busiest_day"
    /\ CalendarCounts = <<1, 2, 2>>
    /\ report.value = [date |-> 2, count |-> 2]

\* A calendar without days has no busiest day.
C26_WitnessEmpty ==
    /\ report.op = "get_busiest_day"
    /\ calendar.weeks = <<>>
    /\ report.value = None

\* C27: the total a calendar reports is the sum of the counts of its days.
C27_TotalIsSumOfDays ==
    report.op = "total_contributions" => report.value = SumCounts(CalendarCounts)

\* What the code does: the total is the reply's totalContributions, and 0
\* when the reply has none; it is never computed from the days.
C27_TotalIsTheStoredField ==
    report.op = "total_contributions" =>
        /\ report.value = calendar.total_contributions
        /\ report.value \in {0, SumCounts(CalendarCounts)}

----------------------------------------------------------------------------
\* Claims about the SDK object and the process-wide limiter (SpecSdk).

\* C28: a data method called on an object that is not in a session (never
\* entered, or closed since it was last entered) raises GitHubResearcherError
\* "Client not initialized" and issues no network call: no permit is taken
\* and no HTTP client is opened; a close that follows a close of the same
\* object returns and leaves the object as it was, uninitialized.
C28_GuardedByInitialization ==
    /\ [](sdkcall.op \in DataMethods =>
            (~session[sdkcall.sdk] =>
                /\ sdkcall.outcome = ClientNotInitialized
                /\ sdkcall.net = 0))
    /\ [][\A s \in Sdks :
            (sdkcall'.op \in DataMethods /\ sdkcall'.sdk = s /\ sdk_ops' # sdk_ops
                    /\ ~session[s]) =>
                (limiters' = limiters /\ sdk' = sdk)]_vars
    /\ [][(sdkcall.op = "close" /\ sdkcall'.op = "close" /\ sdk_ops' # sdk_ops
                /\ sdkcall'.sdk = sdkcall.sdk) =>
            /\ sdkcall'.outcome = Returned(None)
            /\ sdk' = sdk
            /\ ~sdk'[sdkcall.sdk].initialized]_vars

\* A method was refused on an object that was entered, used and closed.
C28_Witness ==
    /\ sdkcall.op = "get_repos"
    /\ ~session[sdkcall.sdk]
    /\ sdk[sdkcall.sdk].rest_client # Nil
    /\ sdk[sdkcall.sdk].rest_client[1].client = "closed"
    /\ sdkcall.outcome = ClientNotInitialized

\* A method was refused on an object that was never entered.
C28_WitnessNeverEntered ==
    /\ sdkcall.op = "analyze"
    /\ sdk[sdkcall.sdk].rest_client = Nil
    /\ sdkcall.outcome = ClientNotInitialized

\* C30: between two resets every get_rate_limiter call returns the same
\* RateLimiter, which holds exactly the pools rest, search and graphql, so
\* the objects entered and the transports built between the resets draw on
\* one quota state; the first call after reset_rate_limiter returns an
\* instance that did not exist before, with the default pool values.
C30_OneLimiterBetweenResets ==
    /\ [](/\ Cardinality(gets) <= 1
          /\ rate_limiter = Nil => gets = {}
          /\ rate_limiter # Nil => gets \subseteq {rate_limiter[1]}
          /\ \A id \in 1..Len(limiters) : DOMAIN limiters[id] = PoolNames
          /\ \A s \in Sdks :
                session[s] =>
                    /\ sdk[s].rest_client[1].rate_limiter = sdk[s].rate_limiter[1]
                    /\ sdk[s].graphql_client # Nil =>
                        sdk[s].graphql_client[1].rate_limiter = sdk[s].rate_limiter[1])
    /\ [][/\ (rate_limiter # Nil /\ sdkcall'.op # "reset_rate_limiter") =>
                (rate_limiter' = rate_limiter /\ Len(limiters') = Len(limiters))
          /\ (rate_limiter = Nil /\ rate_limiter' # Nil) =>
                /\ rate_limiter'[1] \notin 1..Len(limiters)
                /\ limiters'[rate_limiter'[1]] = RateLimiterInit
                /\ \A id \in 1..Len(limiters) : limiters'[id] = limiters[id]
          /\ \A s \in Sdks :
                (session'[s] /\ ~session[s]) => sdk'[s].rate_limiter = rate_limiter']_vars

\* Two objects in successive sessions with no reset in between: the second
\* finds the permit the first one took missing from the shared limiter.
C30_Witness ==
    /\ sdkcall.op = "enter"
    /\ sdkcall.sdk = 2
    /\ ~session[1]
    /\ sdk[1].rest_client # Nil
    /\ sdk[1].rest_client[1].client = "closed"
    /\ sdk[2].rate_limiter = sdk[1].rate_limiter
    /\ limiters[sdk[2].rate_limiter[1]]["rest"].remaining = REST_LIMIT - 1

\* After a reset, get_rate_limiter has returned a second instance with the
\* default values while the first one keeps its deduction.
C30_WitnessReset ==
    /\ sdkcall.op = "get_rate_limiter"
    /\ sdkcall.outcome = Returned(2)
    /\ Len(limiters) = 2
    /\ limiters[1]["rest"].remaining = REST_LIMIT - 1
    /\ limiters[2] = RateLimiterInit

----------------------------------------------------------------------------
\* Claims about get_profile (SpecProfile).

\* C29: get_profile of a username the server does not know ends in
\* UserNotFoundError carrying that username, in whatever order the replies
\* to the profile request and to the social request arrive.
C29_NotFoundIsUserNotFound ==
    (getp.pc = "done" /\ getp.username \notin users) =>
        getp.outcome = Some(UserNotFoundError(getp.username))

\* What the code does: the gather ends with the exception of the child
\* that fails first; collect_profile's ValueError becomes UserNotFoundError,
\* collect_social's GitHubNotFoundError passes through get_profile.
C29_OutcomeFollowsTheFirstFailure ==
    (getp.pc = "done" /\ getp.username \notin users) =>
        /\ getp.gather[1].type \in {"ValueError", "GitHubNotFoundError"}
        /\ getp.outcome[1] =
                IF getp.gather[1].type = "ValueError"
                THEN UserNotFoundError(getp.username)
                ELSE Raised("GitHubNotFoundError")

\* get_profile of a known user returns the gathered data.
C29_KnownUserReturns ==
    (getp.pc = "done" /\ getp.username \in users) =>
        getp.outcome = Some(Returned("FullUserData"))

----------------------------------------------------------------------------
\* Claims about the Link header (SpecLink).

\* The URL the sent links pair with a relation.
SentUrl(rel) == (CHOOSE i \in 1..Len(sent) : sent[i].rel = rel)

\* C31: get_next_page_url returns the URL the header pairs with rel="next",
\* and None when the header has no such relation, is empty or is missing;
\* parse_link_header gives every relation of the header its own entry,
\* rel -> URL, whatever the other links of the header are.
C31_NextUrlOfHeader ==
    /\ parsed.op = "get_next_page_url" =>
            IF \E i \in 1..Len(sent) : sent[i].rel = RelNext
            THEN parsed.value = Some(sent[SentUrl(RelNext)].url)
            ELSE parsed.value = Nil
    /\ parsed.op = "parse_link_header" =>
            /\ DOMAIN parsed.value = {sent[i].rel : i \in 1..Len(sent)}
            /\ \A i \in 1..Len(sent) : parsed.value[sent[i].rel] = sent[i].url

\* The next relation is the second link of a header whose first URL has a
\* comma in it.
C31_Witness ==
    /\ parsed.op = "get_next_page_url"
    /\ sent = <<Link(<<"2", ",", "3">>, RelLast), Link(Url(2), RelNext)>>
    /\ parsed.value = Some(Url(2))

\* A header without the next relation, and a response without the header.
C31_WitnessAbsent ==
    /\ parsed.op = "get_next_page_url"
    /\ sent = <<Link(Url(1), RelFirst)>>
    /\ parsed.value = Nil

C31_WitnessNoHeader ==
    /\ parsed.op = "get_next_page_url"
    /\ the_header = Nil
    /\ parsed.value = Nil

\* C32: every collect first drains the event feed with the cap of 10 pages,
\* whatever the depth; while it does, no search gather and no commit fetch
\* runs, and when the drain fails the call ends with that error and none is
\* started then or later.
NothingStarted ==
    /\ \A g \in SearchGathers : gstate[g] = "idle"
    /\ \A q \in DOMAIN fstate : fstate[q] = "pending"

C32_EventsFirst ==
    [][/\ collect.pc = "idle" /\ collect'.pc # "idle"
            => /\ collect'.pc = "events"
               /\ collect'.max_pages = EVENTS_MAX_PAGES
               /\ NothingStarted'
       /\ collect.pc = "events" /\ collect'.pc = "events" => NothingStarted'
       /\ collect.pc = "events" /\ collect'.pc = "raised" => NothingStarted'
       /\ collect.pc = "raised" /\ NothingStarted
            => collect'.pc = "raised" /\ NothingStarted']_vars

C32_Witness ==
    /\ collect.pc = "raised"
    /\ collect.deep /\ collect.is_authenticated /\ collect.user_repos # <<>>
    /\ collect.max_pages = EVENTS_MAX_PAGES
    /\ NothingStarted

C32_WitnessQuick ==
    /\ collect.pc = "events"
    /\ ~collect.deep
    /\ collect.max_pages = EVENTS_MAX_PAGES

\* C33: with concurrent sends on one pool and their responses arriving in
\* any order, the limiter's remaining never exceeds what the server still
\* accepts in the window, and the server refuses no request the limiter let
\* through.
C33_LocalNeverAboveServer ==
    /\ pools["rest"].remaining <= quota
    /\ \A t \in SendTasks : reply[t] # Nil => reply[t][1].status # 403

\* C33, what holds instead: a response writes the count the server had when
\* it answered that request into the pool, whatever was sent since.
C33_PoolHoldsTheAnsweredCount ==
    \A t \in SendTasks :
        lastResp.task = t =>
            /\ pools["rest"].remaining = ParseInt(reply[t][1].headers["x-ratelimit-remaining"])
            /\ pools["rest"].remaining >= quota

\* the response to an earlier request is handled after the server has counted
\* a later one
C33_Witness ==
    /\ lastResp.task # NoTask
    /\ pools["rest"].remaining > quota

\* the server refuses a request the limiter let through
C33_WitnessRefused ==
    \E t \in SendTasks :
        /\ reply[t] # Nil /\ reply[t][1].status = 403
        /\ sout[t] = "GitHubRateLimitError"

\* C34: every pool's remaining is at least 0 in every reachable state (the
\* headers never carry a negative number), also after an acquire issued at or
\* after reset_time with remaining below the cost.
C34_RemainingNeverNegative ==
    \A p \in PoolNames : pools[p].remaining >= 0

\* C34, what holds instead: the only step that takes a remaining below 0 is
\* an acquire that returns at or after the pool's reset_time.
C34_BelowZeroOnlyAfterReset ==
    [][\A p \in PoolNames :
        pools[p].remaining >= 0 /\ pools'[p].remaining < 0
            => /\ now >= pools[p].reset_time
               /\ granted'[p] = granted[p] + 1
               /\ pools'[p].remaining = pools[p].remaining - 1]_vars

\* an exhausted pool was deducted from at reset_time
C34_WitnessBelowZero ==
    \E p \in PoolNames :
        /\ ~clean[p]
        /\ now >= pools[p].reset_time
        /\ pools[p].remaining < 0

\* C35: the commits a deep collect returns hold no two entries with the same
\* SHA, also when a SHA comes in several push events or from several sources.
C35_NoTwoEntriesWithOneSha ==
    DeepReturned =>
        \A i, j \in 1..Len(collect.result.commits) :
            collect.result.commits[i].sha = collect.result.commits[j].sha => i = j

\* C35, what holds instead: two entries with one SHA are both event-derived;
\* an entry taken from a fetched history shares its SHA with no other entry.
C35_HistoryEntriesAreUnique ==
    DeepReturned =>
        \A i, j \in 1..Len(collect.result.commits) :
            /\ collect.result.commits[i].sha = collect.result.commits[j].sha
            /\ i # j
            => /\ collect.result.commits[i].message = <<"A">>
               /\ collect.result.commits[j].message = <<"A">>

\* two push commits of the feed with one SHA are both in the returned commits,
\* next to an entry that the merge took from a history
C35_WitnessTwice ==
    /\ DeepReturned
    /\ collect.user_repos # <<>>
    /\ \E i, j, k \in 1..Len(collect.result.commits) :
        /\ i < j
        /\ collect.result.commits[i].sha = collect.result.commits[j].sha
        /\ collect.result.commits[k].message = <<"B">>

\* No response has been handled: every send that ended did so by a refused
\* acquire or a failed network call.
NoResponseYet ==
    \A t \in SendTasks :
        sout[t] \in {"none", "RateLimitExceededError", "RetryError"} \cup NetworkErrors

RECURSIVE AcquiredFrom(_, _)
AcquiredFrom(p, tasks) ==
    IF tasks = {} THEN 0
    ELSE LET t == CHOOSE u \in tasks : TRUE
         IN (IF acquire_pool(skind[t]) = p THEN sacq[t] ELSE 0)
                + AcquiredFrom(p, tasks \ {t})

C36_WitnessRetryRefused ==
    \E t \in SendTasks :
        /\ sshort[t] /\ skind[t] = "rest"
        /\ sattempt[t] = 2 /\ snet[t] = 1 /\ sacq[t] = 1
        /\ sout[t] = "RateLimitExceededError"

C38_NoTokenKeepsRemaining ==
    [][\A t \in Tasks :
        /\ ~hasToken /\ skind[t] = "graphql"
        /\ sout[t] = "none" /\ sout'[t] = "GitHubGraphQLError"
        => pools'["graphql"].remaining = pools["graphql"].remaining]_vars

\* C38, what holds instead: such an execute takes one permit from the graphql
\* pool and issues no network call.
C38_NoTokenTakesOnePermit ==
    [][\A t \in Tasks :
        /\ ~hasToken /\ skind[t] = "graphql"
        /\ sout[t] = "none" /\ sout'[t] = "GitHubGraphQLError"
        => /\ pools'["graphql"].remaining = pools["graphql"].remaining - 1
           /\ snet'[t] = snet[t]
           /\ sacq'[t] = sacq[t] + 1]_vars

\* an execute without a token has failed and the graphql pool is one lower
C38_WitnessOneLower ==
    /\ ~hasToken
    /\ skind[1] = "graphql" /\ sout[1] = "GitHubGraphQLError" /\ snet[1] = 0
    /\ pools["graphql"].remaining = GRAPHQL_LIMIT - 1

\* C39: when get_profile has returned or raised, neither collect_profile nor
\* collect_social is still running: no request of the call is in flight.
C39_NoTaskOutlivesTheCall ==
    getp.pc = "done" => (ptask.state = "done" /\ stask.state = "done")

\* C39, what holds instead: when get_profile returns, both coroutines have
\* ended; when it raises, the one that failed first has ended.
C39_ReturnedMeansBothEnded ==
    getp.pc = "done" =>
        /\ getp.outcome[1].type = "return" => (ptask.state = "done" /\ stask.state = "done")
        /\ ptask.state = "done" \/ stask.state = "done"

\* get_profile has raised while the request of the other coroutine is
\* still in flight
C39_WitnessStillRunning ==
    /\ getp.pc = "done"
    /\ getp.outcome[1].type # "return"
    /\ ptask.state = "request" \/ stask.state = "request"

\* get_profile has returned
C39_WitnessReturned ==
    /\ getp.pc = "done"
    /\ getp.outcome[1].type = "return"

\* C40: on every calendar 0 <= get_streak() <= get_longest_streak() <= the
\* number of its days, and get_longest_streak() is 0 exactly when no day has
\* count > 0; each method's result is held against the other's on the same
\* calendar.
C40_StreakOrder ==
    LET counts == CalendarCounts
        n == Len(counts)
    IN /\ report.op = "get_streak" =>
            /\ 0 <= report.value
            /\ report.value <= get_longest_streak(calendar)
            /\ get_longest_streak(calendar) <= n
       /\ report.op = "get_longest_streak" =>
            /\ 0 <= get_streak(calendar)
            /\ get_streak(calendar) <= report.value
            /\ report.value <= n
            /\ report.value = 0 <=> \A k \in 1..n : counts[k] = 0

\* The current streak crosses the boundary of two weeks and is the longest;
\* the calendar has a day more.
C40_Witness ==
    /\ report.op = "get_streak"
    /\ Len(calendar.weeks) = 2
    /\ CalendarCounts = <<0, 2, 1>>
    /\ Len(calendar.weeks[2].days) = 1
    /\ report.value = 2
    /\ get_longest_streak(calendar) = 2

\* The current streak is shorter than the longest one.
C40_WitnessShorter ==
    /\ report.op = "get_longest_streak"
    /\ CalendarCounts = <<1, 1, 0>>
    /\ get_streak(calendar) = 0
    /\ report.value = 2

\* Days without contributions only: the longest streak is 0.
C40_WitnessNone ==
    /\ report.op = "get_longest_streak"
    /\ CalendarCounts = <<0, 0>>
    /\ report.value = 0

====
